---- MODULE Spec2Model ----
(***************************************************************************)
(* The posting bots of urbanist-bots as one state machine.  Each behaviour *)
(* follows one script (bot) over repeated scheduled runs: everysalecville  *)
(* ("sale"), everypermitcville ("permit"), everysalealbmrl ("alb") and     *)
(* everylotcville ("lot").  A run is the script's main(); its steps are    *)
(* the statements between which an exception or a kill can end the         *)
(* process.                                                                *)
(*                                                                         *)
(* disk  is the durable ledger file (shelf.db, posts.csv, the parcels      *)
(*       table); shelf is the view of it the running process holds.        *)
(* published is the log of posts the social service accepted.              *)
(***************************************************************************)
EXTENDS Integers, Sequences, FiniteSets, TLC

VARIABLES
    bot,            \* which script this behaviour runs
    pc,             \* position of the running process; "idle" between runs
    runs,           \* number of runs started so far
    disk,           \* durable ledger: key -> entry
    shelf,          \* the open ledger as the running process sees it
    todo,           \* records of this run still to be iterated, in loop order
    cur,            \* the record of the current loop iteration
    status,         \* local `status` of main (Unbound before its first assignment)
    address,        \* local `address` of main
    thread_root,    \* local thread_root (sale)
    thread_parent,  \* local thread_parent (sale), last_tweet_id (alb)
    resp,           \* the response of the last send in this iteration
    max_details,    \* local max_details (permit)
    message,        \* local message (permit)
    published,      \* sequence of posts accepted by the service
    exit,           \* how the last run ended, and at which record
    img,            \* a call of maybe_compress_image: arguments, locals, outcome
    images,         \* local `images` of main (sale, lot): the size of each, in bytes
    call,           \* a call of one of the other functions: arguments, locals, outcome
    files,          \* cville-gis-scrape: the images directory, parcel number -> file
    workers         \* cville-gis-scrape: bucket index -> the process run with it

vars == <<bot, pc, runs, disk, shelf, todo, cur, status, address, thread_root,
          thread_parent, resp, max_details, message, published, exit, img,
          images, call, files, workers>>

(***************************************************************************)
(* Bounds of the model.                                                    *)
(***************************************************************************)
MaxRuns == 2
MaxFetch == 2

(***************************************************************************)
(* Python values.                                                          *)
(***************************************************************************)
None == "None"
Unbound == "<unbound>"
NoRecord == [kind |-> "none"]
NoImage == [pc |-> "none"]
NoCall == [pc |-> "none"]
Empty == <<>>

Range(s) == {s[i] : i \in 1..Len(s)}

\* All sequences without repetition over S of length at most n: the lists a
\* fetch can return.
RECURSIVE ListsOver(_, _)
ListsOver(S, n) ==
    IF n = 0 \/ S = {} THEN {<<>>}
    ELSE {<<>>} \cup UNION {{<<x>> \o t : t \in ListsOver(S \ {x}, n - 1)} : x \in S}

(***************************************************************************)
(* Text helpers: humanize.intcomma, zero padding, Python's round, and the  *)
(* date of a timestamp.                                                    *)
(***************************************************************************)
RECURSIVE Zeros(_)
Zeros(n) == IF n <= 0 THEN "" ELSE "0" \o Zeros(n - 1)

Pad(n, width) == Zeros(width - Len(ToString(n))) \o ToString(n)

RECURSIVE intcomma(_)
intcomma(n) ==
    IF n < 1000 THEN ToString(n)
    ELSE intcomma(n \div 1000) \o "," \o Pad(n % 1000, 3)

\* round(a / b) for naturals: Python rounds halves to the even neighbour.
round(a, b) ==
    LET q == a \div b
        r == a % b
    IN  IF 2 * r < b THEN q
        ELSE IF 2 * r > b THEN q + 1
        ELSE IF q % 2 = 0 THEN q ELSE q + 1

\* datetime.datetime.fromtimestamp(seconds) in a UTC process: the civil date
\* of the day count since 1970-01-01.  TLC's integers have 32 bits, so the
\* records keep SaleDate / 1000, the seconds the code passes here.
fromtimestamp(seconds) ==
    LET z   == (seconds \div 86400) + 719468
        era == z \div 146097
        doe == z - era * 146097
        yoe == (doe - doe \div 1460 + doe \div 36524 - doe \div 146096) \div 365
        doy == doe - (365 * yoe + yoe \div 4 - yoe \div 100)
        mp  == (5 * doy + 2) \div 153
        d   == doy - (153 * mp + 2) \div 5 + 1
        m   == IF mp < 10 THEN mp + 3 ELSE mp - 9
        y   == yoe + era * 400 + (IF m <= 2 THEN 1 ELSE 0)
    IN  [year |-> y, month |-> m, day |-> d]

\* str(datetime.date)
isoformat(date) ==
    Pad(date.year, 4) \o "-" \o Pad(date.month, 2) \o "-" \o Pad(date.day, 2)

\* str.endswith
endswith(s, suffix) ==
    /\ Len(s) >= Len(suffix)
    /\ SubSeq(s, Len(s) - Len(suffix) + 1, Len(s)) = suffix

(***************************************************************************)
(* everysalecville: the data the city's services return.                   *)
(***************************************************************************)
\* Rows of the sales layer (get_sales).  ParcelNumber is a fixed-width digit
\* string in the data; its order is the order of the number kept here.
SaleRecords ==
    { [ParcelNumber |-> 10, BookPage |-> "2024:100", SaleAmount |-> 450000,
       SaleDate |-> 1727740800],
      [ParcelNumber |-> 20, BookPage |-> "2024:100", SaleAmount |-> 450000,
       SaleDate |-> 1727740800],
      [ParcelNumber |-> 30, BookPage |-> "2024:200", SaleAmount |-> 123456,
       SaleDate |-> 1709164800],
      [ParcelNumber |-> 15, BookPage |-> "2024:100", SaleAmount |-> 0,
       SaleDate |-> 1727740800] }

\* The `properties` of the parcel's one detail record (get_details).
properties_of(parcel_number) ==
    CASE parcel_number = 10 ->
           [StreetNumber |-> "100", StreetName |-> "MAIN ST", Unit |-> "",
            Assessment |-> 400000, OwnerName |-> "ACME HOLDINGS LLC",
            Zoning |-> "DX"]
      [] parcel_number = 20 ->
           [StreetNumber |-> "102", StreetName |-> "MAIN ST", Unit |-> "B",
            Assessment |-> 250000, OwnerName |-> "SMITH JOHN",
            Zoning |-> "DX"]
      [] parcel_number = 30 ->
           [StreetNumber |-> "7", StreetName |-> "ELM AVE", Unit |-> "",
            Assessment |-> 98700, OwnerName |-> "DOE JANE",
            Zoning |-> "R-A"]
      [] OTHER ->
           [StreetNumber |-> "9", StreetName |-> "OAK LN", Unit |-> "",
            Assessment |-> 0, OwnerName |-> "CITY OF CHARLOTTESVILLE",
            Zoning |-> "CX-3"]

\* What get_details can answer for one parcel: the feature list has one
\* record, or none, or two.
DetailResponses(parcel_number) ==
    LET d == [properties |-> properties_of(parcel_number)]
    IN  {<<d>>, <<>>, <<d, d>>}

\* get_square_feet: total finished square feet as <<n>>, and <<>> for the
\* None of a parcel with no or ambiguous records.
get_square_feet(parcel_number) ==
    CASE parcel_number = 30 -> <<1500>>
      [] parcel_number = 10 -> <<2000>>
      [] OTHER -> <<>>

\* get_previous_sale: the latest earlier sale with a price, as <<sale>> (and
\* <<>> for None), and the number of parcels on its book page.
get_previous_sale(parcel_number) ==
    CASE parcel_number = 30 ->
           <<(<<[SaleDate |-> 1262304000, SaleAmount |-> 99000]>>), 3>>
      [] parcel_number = 10 ->
           <<(<<[SaleDate |-> 1420070400, SaleAmount |-> 1250000]>>), 1>>
      [] OTHER -> <<(<<>>), 0>>

\* OverlayClassifier
adc_district(parcel_number) ==
    IF parcel_number = 10 THEN "Downtown ADC District" ELSE None

is_adc_contributing(parcel_number) == parcel_number = 10

is_protected(parcel_number) == parcel_number = 30

(***************************************************************************)
(* everysalecville: pure functions.                                        *)
(***************************************************************************)
is_probable_business(owner) ==
    \/ endswith(owner, " LLC")
    \/ endswith(owner, " LTD")
    \/ endswith(owner, " INC")
    \/ endswith(owner, " CORPORATION")
    \/ endswith(owner, " FOUNDATION")
    \/ owner \in { "CITY OF CHARLOTTESVILLE",
                   "CITY OF CHARLOTTESVILLE & COUNTY OF ALBEMARLE",
                   "COUNTY OF ALBEMARLE",
                   "THE RECTOR & VISITORS OF THE UNIVERSITY OF VIRGINIA",
                   "CHARLOTTESVILLE REDEVELOPMENT & HOUSING AUTHORITY",
                   "VELIKY, LC" }

\* A suffix written from one parcel on.
format_previous_sale_from_one(sale, parcel_count) ==
    "Last sold in " \o ToString(fromtimestamp(sale.SaleDate).year) \o " for $"
        \o intcomma(sale.SaleAmount)
        \o (IF parcel_count >= 1
            THEN " (" \o ToString(parcel_count) \o " parcels)" ELSE "") \o "."

format_previous_sale(sale, parcel_count) ==
    LET sale_date   == fromtimestamp(sale.SaleDate)
        sale_amount == intcomma(sale.SaleAmount)
        out == "Last sold in " \o ToString(sale_date.year) \o " for $" \o sale_amount
    IN  (IF parcel_count > 1
         THEN out \o " (" \o ToString(parcel_count) \o " parcels)"
         ELSE out) \o "."

\* str.replace("ADC District", "").strip() + " ADC" for the district names of
\* the overlay layer, all of the form "<name> ADC District".
adc_status_of(district) ==
    (IF endswith(district, " ADC District")
     THEN SubSeq(district, 1, Len(district) - Len(" ADC District"))
     ELSE district) \o " ADC"

\* Every owner is named.
sold_to_owner(owner) == "sold to " \o owner

\* get_status, lines 225-229.
sale_sold_detail(owner) ==
    IF is_probable_business(owner) THEN "sold to " \o owner ELSE "sold"

\* A group counted as one only from three records on.
in_group_from_three(group_count) == group_count > 2

\* The test `group_count > 1` of get_status.
in_group(group_count) == group_count > 1

\* get_status after its assertion: the status text and the address.
get_status(sale, group_count, index, details) ==
    LET parcel_number == sale.ParcelNumber
        properties == details.properties
        square_feet == IF group_count = 1 THEN get_square_feet(parcel_number) ELSE <<>>
        price_per_square_foot ==
            IF square_feet # <<>> /\ square_feet[1] # 0
            THEN intcomma(round(sale.SaleAmount, square_feet[1]))
            ELSE None
        address0 == properties.StreetNumber \o " " \o properties.StreetName
        addr == IF properties.Unit # ""
                THEN address0 \o " Unit " \o properties.Unit
                ELSE address0
        sale_date == isoformat(fromtimestamp(sale.SaleDate))
        sale_amount == intcomma(sale.SaleAmount)
        assessment == intcomma(properties.Assessment)
        s0 == addr \o ", " \o sale_sold_detail(properties.OwnerName)
                \o " on " \o sale_date \o " for $"
                \o sale_amount \o ". Zoned " \o properties.Zoning
                \o ", assessed at $" \o assessment \o "."
        s1 == IF price_per_square_foot # None
              THEN s0 \o " $" \o price_per_square_foot \o " per square foot."
              ELSE s0
        previous == get_previous_sale(parcel_number)
        s2 == IF in_group(group_count)
              THEN s1 \o " Parcel " \o ToString(index + 1) \o " of "
                      \o ToString(group_count) \o "."
              ELSE IF previous[1] # <<>>
                   THEN s1 \o " " \o format_previous_sale(previous[1][1], previous[2])
                   ELSE s1
        district == adc_district(parcel_number)
        s3 == IF district # None
              THEN s2 \o " " \o adc_status_of(district)
                      \o (IF is_adc_contributing(parcel_number)
                          THEN "; contributing structure" ELSE "") \o "."
              ELSE s2
        s4 == IF is_protected(parcel_number) THEN s3 \o " IPP." ELSE s3
    IN  <<s4, addr>>

(***************************************************************************)
(* The process: start of a run, end of a run, exceptions and kills.        *)
(***************************************************************************)
Bots == {"sale", "permit", "alb", "lot"}

\* posts.csv as the first run of everysalealbmrl finds it: the rows earlier
\* deployments left.
PostsCsv ==
    { Empty,
      "A1" :> [mapblolot |-> "A1", postid |-> "tweet-a"],
      ("A1" :> [mapblolot |-> "A1", postid |-> "tweet-a"])
        @@ ("B1" :> [mapblolot |-> "B1", postid |-> "tweet-b"]) }

\* The ledger before the first run.
InitialLedgers(b) == IF b = "alb" THEN PostsCsv ELSE {Empty}

Init ==
    /\ bot \in Bots
    /\ pc = "idle"
    /\ runs = 0
    /\ disk \in InitialLedgers(bot)
    /\ shelf = Empty
    /\ todo = <<>>
    /\ cur = NoRecord
    /\ status = Unbound
    /\ address = Unbound
    /\ thread_root = None
    /\ thread_parent = None
    /\ resp = None
    /\ max_details = 0
    /\ message = Unbound
    /\ published = <<>>
    /\ exit = [how |-> "none", key |-> None]
    /\ img = NoImage
    /\ images = <<>>
    /\ call = NoCall
    /\ files = <<>>
    /\ workers = <<>>

\* The key of the record the loop is at, None between two iterations.
cur_key == IF cur = NoRecord THEN None ELSE cur.key

\* The process is gone: its locals with it.  d is what the ledger file holds,
\* how is the way the run ended (returned, an exception, killed); todo keeps
\* the records the run did not reach.
EndRun(d, how) ==
    /\ pc' = "idle"
    /\ disk' = d
    /\ shelf' = Empty
    /\ exit' = [how |-> how, key |-> cur_key]
    /\ UNCHANGED todo
    /\ cur' = NoRecord
    /\ status' = Unbound
    /\ address' = Unbound
    /\ thread_root' = None
    /\ thread_parent' = None
    /\ resp' = None
    /\ max_details' = 0
    /\ message' = Unbound
    /\ images' = <<>>
    /\ UNCHANGED <<files, workers, call, img, bot, runs, published>>

\* An exception leaves main: `with shelve.open(...) as shelf` closes the shelf
\* on the way out, which writes it.
Raise(how) == EndRun(shelf, how)

\* The process is killed, or the machine stops, at any point of a run.  What
\* was assigned to a shelve file and not yet synced may or may not have
\* reached it.
Crash ==
    /\ pc # "idle"
    /\ \E d \in (IF bot \in {"sale", "permit"} THEN {disk, shelf} ELSE {disk}) :
           EndRun(d, "killed")

sale_MAX_IMAGE_SIZE_BYTES == 1000000
lot_MAX_IMAGE_SIZE_BYTES == 2 ^ 20

MAX_IMAGE_SIZE_BYTES(b) ==
    IF b = "lot" THEN lot_MAX_IMAGE_SIZE_BYTES ELSE sale_MAX_IMAGE_SIZE_BYTES

\* What get_gis_photo returns when it returns: None (<<>>: no image url, a
\* response other than 200, or ImageTooLarge caught), or the buffer that
\* maybe_compress_image returned, which has at most the ceiling's bytes.
get_gis_photo(b) == {<<>>, <<MAX_IMAGE_SIZE_BYTES(b)>>}

\* images/<parcel number>.jpg as main reads it: no such file (<<>>), or the
\* file's bytes whatever their number; main appends them as they are.
gis_image_file(b) ==
    {<<>>, <<MAX_IMAGE_SIZE_BYTES(b)>>, <<MAX_IMAGE_SIZE_BYTES(b) + 1>>}

\* The reference the service returns for the next accepted post.
next_ref == "post" \o ToString(Len(published) + 1)

(***************************************************************************)
(* everysalecville.main                                                    *)
(***************************************************************************)
key_of(sale) == ToString(sale.ParcelNumber) \o "::" \o sale.BookPage

Post(parcel_number, book_page, post, root, parent) ==
    [parcel_number |-> parcel_number, book_page |-> book_page, post |-> post,
     thread_root |-> root, thread_parent |-> parent]

\* The keys of sale_groups in insertion order: book pages by first appearance.
RECURSIVE book_pages(_)
book_pages(sales) ==
    IF sales = <<>> THEN <<>>
    ELSE LET rest == book_pages(SubSeq(sales, 1, Len(sales) - 1))
             bp == sales[Len(sales)].BookPage
         IN  IF bp \in Range(rest) THEN rest ELSE Append(rest, bp)

sale_group(sales, book_page) ==
    SelectSeq(sales, LAMBDA sale : sale.BookPage = book_page)

sorted_sales(group) ==
    SortSeq(group, LAMBDA a, b : a.ParcelNumber < b.ParcelNumber)

\* The iterations of the two nested loops, in order: each sale with its
\* group's size and its index in the sorted group.
RECURSIVE sale_iterations(_, _)
sale_iterations(sales, pages) ==
    IF pages = <<>> THEN <<>>
    ELSE LET sorted == sorted_sales(sale_group(sales, Head(pages)))
         IN  [i \in 1..Len(sorted) |->
                 [sale |-> sorted[i], group_count |-> Len(sorted), index |-> i - 1,
                  key |-> key_of(sorted[i]), sorted_sales |-> sorted]]
             \o sale_iterations(sales, Tail(pages))

\* shelve.open with flag "n": always a new, empty database.
shelve_open_new == Empty

\* shelve.open(str(SHELF_PATH)): the shelf as the file holds it.
shelve_open == disk

\* A lookup that only knows the entries written since the shelf was opened.
already_processed_in_run(key) == key \in DOMAIN shelf \ DOMAIN disk

\* `key in shelf`
already_processed(key) == key \in DOMAIN shelf

\* thread_root and thread_parent as the iteration finds them: reset to None
\* before the first sale of a group.
root_at(item) == IF item.index = 0 THEN None ELSE thread_root

\* thread_parent carried over from the group before.
parent_never_reset(item) == thread_parent

parent_at(item) == IF item.index = 0 THEN None ELSE thread_parent

sale_Start ==
    /\ bot = "sale" /\ pc = "idle" /\ runs < MaxRuns
    /\ \E sales \in ListsOver(SaleRecords, MaxFetch) :
           todo' = sale_iterations(sales, book_pages(sales))
    /\ runs' = runs + 1
    /\ shelf' = shelve_open
    /\ pc' = "loop"
    /\ UNCHANGED <<files, workers, call, images, img, bot, disk, cur, status, address, thread_root, thread_parent,
                   resp, max_details, message, published, exit>>

\* Lines 137-141: the key is in the shelf.
sale_Skip ==
    /\ bot = "sale" /\ pc = "loop" /\ todo # <<>>
    /\ LET item == Head(todo)
       IN  /\ already_processed(item.key)
           /\ thread_parent' = shelf[item.key].post
           /\ thread_root' = shelf[item.key].thread_root
    /\ todo' = Tail(todo)
    /\ UNCHANGED <<files, workers, call, images, img, bot, pc, runs, disk, shelf, cur, status, address, resp,
                   max_details, message, published, exit>>

\* Lines 142-144: no sale price.
sale_SkipNoPrice ==
    /\ bot = "sale" /\ pc = "loop" /\ todo # <<>>
    /\ LET item == Head(todo)
       IN  /\ ~already_processed(item.key)
           /\ item.sale.SaleAmount = 0
           /\ thread_parent' = parent_at(item)
           /\ thread_root' = root_at(item)
    /\ todo' = Tail(todo)
    /\ UNCHANGED <<files, workers, call, images, img, bot, pc, runs, disk, shelf, cur, status, address, resp,
                   max_details, message, published, exit>>

\* The iteration goes on to get_status.
sale_Process ==
    /\ bot = "sale" /\ pc = "loop" /\ todo # <<>>
    /\ LET item == Head(todo)
       IN  /\ ~already_processed(item.key)
           /\ item.sale.SaleAmount # 0
           /\ thread_parent' = parent_at(item)
           /\ thread_root' = root_at(item)
           /\ cur' = [kind |-> "sale", sale |-> item.sale, key |-> item.key,
                      group_count |-> item.group_count, index |-> item.index,
                      sorted_sales |-> item.sorted_sales, failed |-> FALSE]
    /\ todo' = Tail(todo)
    /\ pc' = "get_status"
    /\ UNCHANGED <<files, workers, call, images, img, bot, runs, disk, shelf, status, address, resp, max_details,
                   message, published, exit>>

\* Lines 146-151: get_status returns, or raises (its assertion on the number
\* of detail records, or an HTTP error of one of its requests); the handler
\* logs and the iteration goes on with status and address as they were.
sale_get_status ==
    /\ bot = "sale" /\ pc = "get_status"
    /\ \E detailses \in DetailResponses(cur.sale.ParcelNumber), http_ok \in BOOLEAN :
           IF http_ok /\ Len(detailses) = 1
           THEN LET r == get_status(cur.sale, cur.group_count, cur.index, detailses[1])
                IN  /\ status' = r[1]
                    /\ address' = r[2]
                    /\ UNCHANGED cur
           ELSE /\ cur' = [cur EXCEPT !.failed = TRUE]
                /\ UNCHANGED <<status, address>>
    /\ pc' = "images"
    /\ UNCHANGED <<files, workers, call, images, img, bot, runs, disk, shelf, todo, thread_root, thread_parent, resp,
                   max_details, message, published, exit>>

\* Lines 153-166: the photo and the map image.  The alt texts read `address`.
sale_images ==
    /\ bot = "sale" /\ pc = "images"
    /\ \E photo_image \in get_gis_photo("sale"), gis_image \in gis_image_file("sale") :
           /\ (photo_image # <<>> \/ gis_image # <<>>) => address # Unbound
           /\ images' = photo_image \o gis_image
    /\ pc' = "send"
    /\ UNCHANGED <<files, workers, call, img, bot, runs, disk, shelf, todo, cur, status, address, thread_root,
                   thread_parent, resp, max_details, message, published, exit>>

\* get_gis_photo raises (HTTP error), or an alt text reads the unbound
\* `address` (NameError): the exception leaves main.
sale_images_raise ==
    /\ bot = "sale" /\ pc = "images"
    /\ Raise("Exception")

\* Lines 168-180: the post is accepted.
sale_send ==
    /\ bot = "sale" /\ pc = "send"
    /\ status # Unbound
    /\ published' = Append(published,
           [key |-> cur.key, text |-> status, ref |-> next_ref, run |-> runs,
            reply_to |-> IF thread_parent # None
                         THEN [parent |-> thread_parent, root |-> thread_root]
                         ELSE [parent |-> None, root |-> None]])
    /\ resp' = next_ref
    /\ pc' = "store"
    /\ UNCHANGED <<files, workers, call, images, img, bot, runs, disk, shelf, todo, cur, status, address, thread_root,
                   thread_parent, max_details, message, exit>>

\* send_images raises, or its argument `status` is unbound (NameError).
sale_send_raise ==
    /\ bot = "sale" /\ pc = "send"
    /\ Raise("Exception")

\* Lines 182-190
sale_store ==
    /\ bot = "sale" /\ pc = "store"
    /\ LET root == IF thread_root # None THEN thread_root ELSE resp
       IN  /\ thread_root' = root
           /\ shelf' = (cur.key :> Post(cur.sale.ParcelNumber, cur.sale.BookPage,
                                        resp, root, thread_parent)) @@ shelf
    /\ thread_parent' = resp
    /\ pc' = "sync"
    /\ UNCHANGED <<files, workers, call, images, img, bot, runs, disk, todo, cur, status, address, resp, max_details,
                   message, published, exit>>

\* No sync: the file is written when the shelf is closed.
sync_deferred == disk' = disk

\* Line 192: shelf.sync()
sync == disk' = shelf

sale_sync ==
    /\ bot = "sale" /\ pc = "sync"
    /\ sync
    /\ pc' = "loop"
    /\ UNCHANGED <<files, workers, call, images, img, bot, runs, shelf, todo, cur, status, address, thread_root,
                   thread_parent, resp, max_details, message, published, exit>>

\* The loops are over: main returns and the with block closes the shelf.
sale_Finish ==
    /\ bot = "sale" /\ pc = "loop" /\ todo = <<>>
    /\ EndRun(shelf, "returned")

(***************************************************************************)
(* everypermitcville: constants, the portal's data, format_message.        *)
(***************************************************************************)
MAX_POST_LENGTH == 300
MAX_MAX_DETAILS == 5
MAX_DETAILS_LENGTH == 50

PERMIT_URL == "https://permits.charlottesville.gov/portal/PermitInfo/Index"

RECURSIVE Rep(_, _)
Rep(c, n) == IF n <= 0 THEN "" ELSE c \o Rep(c, n - 1)

AddressOfLength(n) == SubSeq(Rep("1 LONG NAMED RD ", 1 + n \div 16), 1, n)

\* Rows of the portal's search table (get_permits).
Permits ==
    { [Id |-> "101.0", Project_Number |-> "BLD-24-0101", Type |-> "Building",
       Sub_Type |-> "Residential", Site_Address |-> "100 MAIN ST"],
      [Id |-> "102", Project_Number |-> "BLD-24-0102", Type |-> "Building",
       Sub_Type |-> "Commercial", Site_Address |-> "200 W MARKET ST"],
      [Id |-> "103.0", Project_Number |-> "ELE-24-0103", Type |-> "Electrical",
       Sub_Type |-> "Electrical", Site_Address |-> AddressOfLength(198)],
      [Id |-> "104", Project_Number |-> "BLD-24-0104", Type |-> "Building",
       Sub_Type |-> "Residential", Site_Address |-> AddressOfLength(189)] }

LongDetails ==
    << <<"Description of Work", Rep("renovate ", 13)>>,
       <<"Valuation", "1000">>,
       <<"Contractor", Rep("y", 50)>>,
       <<"Use", Rep("z", 51)>>,
       <<"Units", "2">>,
       <<"Stories", "1">>,
       <<"Area", "100">> >>

\* The rows of a permit page's details table, as the dict get_permit builds:
\* <<description, data>> pairs in insertion order.
permit_details_of(permit_id) ==
    CASE permit_id = "101" -> << <<"Valuation", "2500">>, <<"Units", "1">> >>
      [] permit_id = "102" -> LongDetails
      [] permit_id = "103" -> LongDetails
      [] OTHER -> << <<"Valuation", "10">> >>

\* str(int(float(Id))) for the portal's ids, decimal digits with an optional
\* fraction: the digits before the point.
RECURSIVE before_point(_)
before_point(text) ==
    IF text = "" \/ SubSeq(text, 1, 1) = "." THEN ""
    ELSE SubSeq(text, 1, 1) \o before_point(SubSeq(text, 2, Len(text)))

permit_id_of(permit) == before_point(permit.Id)

permit_url_of(permit_id) == PERMIT_URL \o "?caObjectId=" \o permit_id

\* str.join
RECURSIVE join(_, _)
join(sep, parts) ==
    IF parts = <<>> THEN ""
    ELSE IF Len(parts) = 1 THEN parts[1]
    ELSE parts[1] \o sep \o join(sep, Tail(parts))

format_message(permit, permit_details, permit_url, max_details_arg) ==
    LET project_type ==
            IF permit.Sub_Type # permit.Type
            THEN permit.Type \o "/" \o permit.Sub_Type
            ELSE permit.Type
        head == permit.Project_Number \o ": " \o project_type \o " @ "
                  \o permit.Site_Address
        detail_keys == SubSeq(permit_details, 1,
                              IF max_details_arg < Len(permit_details)
                              THEN max_details_arg ELSE Len(permit_details))
        detail_item(pair) ==
            pair[1] \o ": " \o
            (IF Len(pair[2]) > MAX_DETAILS_LENGTH
             THEN SubSeq(pair[2], 1, MAX_DETAILS_LENGTH) \o "..."
             ELSE pair[2])
        detail_items ==
            [i \in 1..Len(detail_keys) |-> detail_item(detail_keys[i])]
            \o (IF Len(permit_details) > Len(detail_keys) THEN <<"...">> ELSE <<>>)
        message_parts ==
            <<head>>
            \o (IF max_details_arg > 0 THEN <<join("\n", detail_items)>> ELSE <<>>)
            \o <<permit_url>>
    IN  join("\n\n", message_parts)

(***************************************************************************)
(* everypermitcville.main                                                  *)
(***************************************************************************)
PermitPost(permit_id, project_number) ==
    [permit_id |-> permit_id, project_number |-> project_number]

\* `permit_id in shelf`
permit_processed(permit_id) == permit_id \in DOMAIN shelf

permit_Start ==
    /\ bot = "permit" /\ pc = "idle" /\ runs < MaxRuns
    /\ \E permits \in ListsOver(Permits, MaxFetch) : todo' = permits
    /\ runs' = runs + 1
    /\ shelf' = shelve_open
    /\ pc' = "loop"
    /\ UNCHANGED <<files, workers, call, images, img, bot, disk, cur, status, address, thread_root, thread_parent,
                   resp, max_details, message, published, exit>>

\* Lines 181-183
permit_Skip ==
    /\ bot = "permit" /\ pc = "loop" /\ todo # <<>>
    /\ permit_processed(permit_id_of(Head(todo)))
    /\ todo' = Tail(todo)
    /\ UNCHANGED <<files, workers, call, images, img, bot, pc, runs, disk, shelf, cur, status, address, thread_root,
                   thread_parent, resp, max_details, message, published, exit>>

\* Lines 184-189: get_permit returns the page's url and details.
permit_get_permit ==
    /\ bot = "permit" /\ pc = "loop" /\ todo # <<>>
    /\ LET permit == Head(todo)
           permit_id == permit_id_of(permit)
       IN  /\ ~permit_processed(permit_id)
           /\ cur' = [kind |-> "permit", permit |-> permit, key |-> permit_id,
                      permit_url |-> permit_url_of(permit_id),
                      permit_details |-> permit_details_of(permit_id),
                      formattings |-> 0]
    /\ max_details' = MAX_MAX_DETAILS
    /\ todo' = Tail(todo)
    /\ pc' = "format"
    /\ UNCHANGED <<files, workers, call, images, img, bot, runs, disk, shelf, status, address, thread_root,
                   thread_parent, resp, message, published, exit>>

\* get_permit raises (HTTP error): main has no handler.
permit_get_permit_raise ==
    /\ bot = "permit" /\ pc = "loop" /\ todo # <<>>
    /\ ~permit_processed(permit_id_of(Head(todo)))
    /\ Raise("Exception")

\* An off-by-one comparison with the limit.
fits_loosely(text) == Len(text) <= MAX_POST_LENGTH + 1

\* `len(message) <= MAX_POST_LENGTH`
fits(text) == Len(text) <= MAX_POST_LENGTH

\* An assertion that still passes at max_details = 0.
may_retry_at_zero(n) == n >= 0

\* `assert max_details > 0`
may_retry(n) == n > 0

\* A step of two.
decrement_by_two(n) == n - 2

\* `max_details -= 1`
decrement(n) == n - 1

\* Lines 190-197, one turn of the loop: format, then break, or decrement
\* after the assertion passed.
permit_format ==
    /\ bot = "permit" /\ pc = "format"
    /\ LET text == format_message(cur.permit, cur.permit_details, cur.permit_url,
                                  max_details)
       IN  /\ message' = text
           /\ fits(text) \/ may_retry(max_details)
           /\ IF fits(text)
              THEN pc' = "send" /\ UNCHANGED max_details
              ELSE pc' = "format" /\ max_details' = decrement(max_details)
    /\ cur' = [cur EXCEPT !.formattings = @ + 1]
    /\ UNCHANGED <<files, workers, call, images, img, bot, runs, disk, shelf, todo, status, address, thread_root,
                   thread_parent, resp, published, exit>>

\* Line 196: the message does not fit with max_details = 0; the assertion
\* fails and the AssertionError leaves main.
permit_assert ==
    /\ bot = "permit" /\ pc = "format"
    /\ LET text == format_message(cur.permit, cur.permit_details, cur.permit_url,
                                  max_details)
       IN  ~fits(text) /\ ~may_retry(max_details)
    /\ Raise("AssertionError")

\* Lines 199-210: the post is accepted.
permit_send ==
    /\ bot = "permit" /\ pc = "send"
    /\ published' = Append(published,
           [key |-> cur.key, text |-> message, ref |-> next_ref, run |-> runs,
            reply_to |-> [parent |-> None, root |-> None]])
    /\ resp' = next_ref
    /\ pc' = "store"
    /\ UNCHANGED <<files, workers, call, images, img, bot, runs, disk, shelf, todo, cur, status, address, thread_root,
                   thread_parent, max_details, message, exit>>

permit_send_raise ==
    /\ bot = "permit" /\ pc = "send"
    /\ Raise("Exception")

\* Line 211
permit_store ==
    /\ bot = "permit" /\ pc = "store"
    /\ shelf' = (cur.key :> PermitPost(cur.key, cur.permit.Project_Number)) @@ shelf
    /\ pc' = "sync"
    /\ UNCHANGED <<files, workers, call, images, img, bot, runs, disk, todo, cur, status, address, thread_root,
                   thread_parent, resp, max_details, message, published, exit>>

\* Line 212
permit_sync ==
    /\ bot = "permit" /\ pc = "sync"
    /\ sync
    /\ pc' = "loop"
    /\ UNCHANGED <<files, workers, call, images, img, bot, runs, shelf, todo, cur, status, address, thread_root,
                   thread_parent, resp, max_details, message, published, exit>>

permit_Finish ==
    /\ bot = "permit" /\ pc = "loop" /\ todo = <<>>
    /\ EndRun(shelf, "returned")

(***************************************************************************)
(* everylotcville: the parcels table, get_status, main.  The ledger is the *)
(* posted column: disk is the committed table, shelf the connection's view *)
(* with its uncommitted update.                                            *)
(***************************************************************************)
\* Rows of the parcels table.
LotParcels ==
    { [ParcelNumber |-> 10, Acreage |-> "0.25"],
      [ParcelNumber |-> 20, Acreage |-> ""],
      [ParcelNumber |-> 30, Acreage |-> "1.5"] }

lot_key(parcel) == ToString(parcel.ParcelNumber)

lot_format_previous_sale(properties, sale, parcel_count) ==
    LET sold_detail == IF is_probable_business(properties.OwnerName)
                       THEN "sold to " \o properties.OwnerName
                       ELSE "sold"
        sale_date   == fromtimestamp(sale.SaleDate)
        sale_amount == intcomma(sale.SaleAmount)
        out == "Last " \o sold_detail \o " in " \o ToString(sale_date.year)
                 \o " for $" \o sale_amount
    IN  (IF parcel_count > 1
         THEN out \o " (" \o ToString(parcel_count) \o " parcels)"
         ELSE out) \o "."

\* everylotcville.get_status after its assertion.
lot_get_status(parcel, details) ==
    LET parcel_number == parcel.ParcelNumber
        properties == details.properties
        address0 == properties.StreetNumber \o " " \o properties.StreetName
        addr == IF properties.Unit # ""
                THEN address0 \o " Unit " \o properties.Unit
                ELSE address0
        square_feet == get_square_feet(parcel_number)
        facts == <<"Zoned " \o properties.Zoning>>
                 \o (IF parcel.Acreage # "" THEN <<parcel.Acreage \o " acres">> ELSE <<>>)
                 \o (IF square_feet # <<>> /\ square_feet[1] # 0
                     THEN <<intcomma(square_feet[1]) \o " square feet">> ELSE <<>>)
                 \o <<"assessed at $" \o intcomma(properties.Assessment)>>
        s1 == addr \o ". " \o join(", ", facts) \o "."
        previous == get_previous_sale(parcel_number)
        s2 == IF previous[1] # <<>>
              THEN s1 \o " " \o lot_format_previous_sale(properties, previous[1][1],
                                                         previous[2])
              ELSE s1
        district == adc_district(parcel_number)
        s3 == IF district # None
              THEN s2 \o " " \o adc_status_of(district)
                      \o (IF is_adc_contributing(parcel_number)
                          THEN "; contributing structure" ELSE "") \o "."
              ELSE s2
        s4 == IF is_protected(parcel_number) THEN s3 \o " IPP." ELSE s3
    IN  <<s4, addr>>

\* select * from parcels where not posted order by parcelnumber limit 1
\* order by parcelnumber desc
last_parcel(candidates) ==
    CHOOSE parcel \in candidates :
        \A other \in candidates : parcel.ParcelNumber >= other.ParcelNumber

next_parcel(candidates) ==
    CHOOSE parcel \in candidates :
        \A other \in candidates : parcel.ParcelNumber <= other.ParcelNumber

\* Lines 80-81.  (With every parcel posted fetchone() is None and main ends
\* with a TypeError before it does anything.)
lot_Start ==
    /\ bot = "lot" /\ pc = "idle" /\ runs < MaxRuns
    /\ LET candidates == {parcel \in LotParcels : lot_key(parcel) \notin DOMAIN disk}
       IN  /\ candidates # {}
           /\ cur' = [kind |-> "lot", parcel |-> next_parcel(candidates),
                      key |-> lot_key(next_parcel(candidates))]
    /\ runs' = runs + 1
    /\ shelf' = disk
    /\ pc' = "get_status"
    /\ UNCHANGED <<files, workers, call, images, img, bot, disk, todo, status, address, thread_root, thread_parent,
                   resp, max_details, message, published, exit>>

\* Lines 80-81 in the runs after the MaxRuns-th: the run counter stays at
\* its bound.
lot_StartAgain ==
    /\ bot = "lot" /\ pc = "idle" /\ runs = MaxRuns
    /\ LET candidates == {parcel \in LotParcels : lot_key(parcel) \notin DOMAIN disk}
       IN  /\ candidates # {}
           /\ cur' = [kind |-> "lot", parcel |-> next_parcel(candidates),
                      key |-> lot_key(next_parcel(candidates))]
    /\ shelf' = disk
    /\ pc' = "get_status"
    /\ UNCHANGED <<files, workers, call, images, img, bot, runs, disk, todo, status, address, thread_root,
                   thread_parent, resp, max_details, message, published, exit>>

\* Lines 80-81 with every parcel posted: fetchone() returns None and
\* parcel["ParcelNumber"] raises TypeError.
lot_StartNone ==
    /\ bot = "lot" /\ pc = "idle"
    /\ {parcel \in LotParcels : lot_key(parcel) \notin DOMAIN disk} = {}
    /\ EndRun(disk, "TypeError")

\* Line 83: get_status returns.
lot_status ==
    /\ bot = "lot" /\ pc = "get_status"
    /\ \E detailses \in DetailResponses(cur.parcel.ParcelNumber) :
           /\ Len(detailses) = 1
           /\ status' = lot_get_status(cur.parcel, detailses[1])[1]
           /\ address' = lot_get_status(cur.parcel, detailses[1])[2]
    /\ pc' = "images"
    /\ UNCHANGED <<files, workers, call, images, img, bot, runs, disk, shelf, todo, cur, thread_root, thread_parent,
                   resp, max_details, message, published, exit>>

\* Line 83: get_status raises (its assertion, an HTTP error); main has no
\* handler.  The connection is dropped with nothing to commit.
lot_status_raise ==
    /\ bot = "lot" /\ pc = "get_status"
    /\ EndRun(disk, "Exception")

\* Lines 85-98
lot_images ==
    /\ bot = "lot" /\ pc = "images"
    /\ \E photo_image \in get_gis_photo("lot"), gis_image \in gis_image_file("lot") :
           images' = photo_image \o gis_image
    /\ pc' = "send"
    /\ UNCHANGED <<files, workers, call, img, bot, runs, disk, shelf, todo, cur, status, address, thread_root,
                   thread_parent, resp, max_details, message, published, exit>>

lot_images_raise ==
    /\ bot = "lot" /\ pc = "images"
    /\ EndRun(disk, "Exception")

\* Lines 100-104: the post is accepted.
lot_send ==
    /\ bot = "lot" /\ pc = "send"
    /\ published' = Append(published,
           [key |-> cur.key, text |-> status, ref |-> next_ref, run |-> runs,
            reply_to |-> [parent |-> None, root |-> None]])
    /\ resp' = next_ref
    /\ pc' = "store"
    /\ UNCHANGED <<files, workers, call, images, img, bot, runs, disk, shelf, todo, cur, status, address, thread_root,
                   thread_parent, max_details, message, exit>>

lot_send_raise ==
    /\ bot = "lot" /\ pc = "send"
    /\ EndRun(disk, "Exception")

\* The parcels whose processing can fail: get_details answers with no or two
\* records for them, or the service refuses their post, on any attempt.
FailingParcels == {10}

\* A run that fails at the parcel it selected.
lot_fail ==
    /\ cur # NoRecord
    /\ cur.parcel.ParcelNumber \in FailingParcels
    /\ \/ lot_status_raise
       \/ lot_images_raise
       \/ lot_send_raise

\* Lines 106-109: update parcels set posted = true, not yet committed.
lot_update ==
    /\ bot = "lot" /\ pc = "store"
    /\ shelf' = (cur.key :> [posted |-> TRUE]) @@ shelf
    /\ pc' = "sync"
    /\ UNCHANGED <<files, workers, call, images, img, bot, runs, disk, todo, cur, status, address, thread_root,
                   thread_parent, resp, max_details, message, published, exit>>

\* Line 110: conn.commit(); main returns.
lot_commit ==
    /\ bot = "lot" /\ pc = "sync"
    /\ EndRun(shelf, "returned")

(***************************************************************************)
(* everysalealbmrl: the county's transactions, the grouping, main.  The    *)
(* ledger is posts.csv (disk), read into posts_df (shelf).                 *)
(***************************************************************************)
\* Rows of to_post: saledate1 is a day number.
AlbRows ==
    { [mapblolot |-> "A1", saleprice |-> 500000, saledate1 |-> 1,
       currowner |-> "SMITH JOHN A & MARY B TR"],
      [mapblolot |-> "A2", saleprice |-> 500000, saledate1 |-> 1,
       currowner |-> "SMITH JOHN A & MARY B TH"],
      [mapblolot |-> "A3", saleprice |-> 500000, saledate1 |-> 1,
       currowner |-> "SMYTH JOHN A & MARY B TH"],
      [mapblolot |-> "B1", saleprice |-> 250000, saledate1 |-> 2,
       currowner |-> "ACME HOLDINGS LLC"] }

\* to_post is sorted by saledate1.
sorted_by_date(rows) ==
    \A i \in 1..Len(rows) : \A j \in i..Len(rows) : rows[i].saledate1 <= rows[j].saledate1

SetMax(S) == CHOOSE x \in S : \A y \in S : y <= x

\* One row of the longest-common-subsequence table from the row before it:
\* row[j + 1] is the length for the prefix ending at `ch` and the first j
\* characters of b.
lcs_row(prev, ch, b) ==
    [j \in 1..(Len(b) + 1) |->
        SetMax({prev[j]} \cup
               {prev[k] + 1 : k \in {k \in 1..(j - 1) : SubSeq(b, k, k) = ch}})]
    \o <<>>

RECURSIVE lcs_rows(_, _, _)
lcs_rows(a, b, prev) ==
    IF a = "" THEN prev[Len(b) + 1]
    ELSE lcs_rows(SubSeq(a, 2, Len(a)), b, lcs_row(prev, SubSeq(a, 1, 1), b))

lcs(a, b) == lcs_rows(a, b, [j \in 1..(Len(b) + 1) |-> 0])

\* fuzz.ratio: 100 * 2 * matches / (len(a) + len(b)), rounded.
fuzz_ratio(a, b) == round(200 * lcs(a, b), Len(a) + Len(b))

alb_group_key(row) == <<row.saleprice, row.saledate1, row.currowner>>

\* fuzz.ratio of every two owner names of the rows, computed once.
OwnerRatios ==
    [a \in {row.currowner : row \in AlbRows} |->
        [b \in {row.currowner : row \in AlbRows} |-> fuzz_ratio(a, b)]]

\* A stricter threshold on the owner names.
similar_owner_from_97(a, b) == OwnerRatios[a][b] >= 97

\* Line 311.
similar_owner(a, b) == OwnerRatios[a][b] >= 95

\* Lines 306-312: the groups (by index) whose key is similar to the row.
similar_keys(groups, row) ==
    {i \in 1..Len(groups) :
        /\ groups[i].key[1] = row.saleprice
        /\ groups[i].key[2] = row.saledate1
        /\ similar_owner(groups[i].key[3], row.currowner)}

\* Any similar group takes the row.
some_match(keys) == keys # {}

\* Line 313.
one_match(keys) == Cardinality(keys) = 1

key_in(groups, key) == {i \in 1..Len(groups) : groups[i].key = key}

\* Lines 316-317: the row for which a warning is logged.
multiple_matches(groups, row) ==
    /\ key_in(groups, alb_group_key(row)) = {}
    /\ Cardinality(similar_keys(groups, row)) > 1

\* Lines 303-318, one iteration: post_groups after `row`, as the dict's
\* items in insertion order.
group_row(groups, row) ==
    LET key == alb_group_key(row)
        add(i) == [groups EXCEPT ![i].rows = Append(@, row)]
    IN  IF key_in(groups, key) # {}
        THEN add(CHOOSE i \in key_in(groups, key) : TRUE)
        ELSE IF one_match(similar_keys(groups, row))
             THEN add(CHOOSE i \in similar_keys(groups, row) : TRUE)
             ELSE Append(groups, [key |-> key, rows |-> <<row>>])

\* Lines 302-318.
RECURSIVE post_groups(_)
post_groups(rows) ==
    IF rows = <<>> THEN <<>>
    ELSE LET groups == post_groups(SubSeq(rows, 1, Len(rows) - 1))
         IN  group_row(groups, rows[Len(rows)])

RECURSIVE alb_iterations(_)
alb_iterations(groups) ==
    IF groups = <<>> THEN <<>>
    ELSE LET group == Head(groups).rows
         IN  [i \in 1..Len(group) |->
                 [transaction |-> group[i], group_count |-> Len(group),
                  index |-> i - 1, key |-> group[i].mapblolot]]
             \o alb_iterations(Tail(groups))

\* `len(prev_posts)`
prev_posts(mapblolot) == mapblolot \in DOMAIN shelf

alb_Start ==
    /\ bot = "alb" /\ pc = "idle" /\ runs < MaxRuns
    /\ \E rows \in {r \in ListsOver(AlbRows, MaxFetch) : sorted_by_date(r)} :
           todo' = alb_iterations(post_groups(rows))
    /\ runs' = runs + 1
    /\ shelf' = disk
    /\ pc' = "loop"
    /\ UNCHANGED <<files, workers, call, images, img, bot, disk, cur, status, address, thread_root, thread_parent,
                   resp, max_details, message, published, exit>>

\* Lines 327-331: thread_parent holds last_tweet_id.
alb_Skip ==
    /\ bot = "alb" /\ pc = "loop" /\ todo # <<>>
    /\ prev_posts(Head(todo).key)
    /\ thread_parent' = shelf[Head(todo).key].postid
    /\ todo' = Tail(todo)
    /\ UNCHANGED <<files, workers, call, images, img, bot, pc, runs, disk, shelf, cur, status, address, thread_root,
                   resp, max_details, message, published, exit>>

\* Lines 333-347: the map and the photos are uploaded.
alb_media ==
    /\ bot = "alb" /\ pc = "loop" /\ todo # <<>>
    /\ ~prev_posts(Head(todo).key)
    /\ cur' = [kind |-> "alb", transaction |-> Head(todo).transaction,
               key |-> Head(todo).key, group_count |-> Head(todo).group_count,
               index |-> Head(todo).index]
    /\ thread_parent' = IF Head(todo).index = 0 THEN None ELSE thread_parent
    /\ todo' = Tail(todo)
    /\ pc' = "create_post"
    /\ UNCHANGED <<files, workers, call, images, img, bot, runs, disk, shelf, status, address, thread_root, resp,
                   max_details, message, published, exit>>

\* Lines 349-356, 104-132: create_post evaluates np.isnull (line 123), which
\* numpy does not define: AttributeError, before create_tweet is called.
\* main has no handler, so the run ends; append_post (lines 154-160) is
\* never reached.
alb_create_post ==
    /\ bot = "alb" /\ pc = "create_post"
    /\ EndRun(disk, "Exception")

alb_Finish ==
    /\ bot = "alb" /\ pc = "loop" /\ todo = <<>>
    /\ EndRun(disk, "returned")

(***************************************************************************)
(* maybe_compress_image (everysalecville and everylotcville: the same body *)
(* with a different default ceiling).  A buffer is its size in bytes and   *)
(* what Pillow makes of its content; an encoding is its size in bytes.     *)
(***************************************************************************)
\* The ceilings a call is made with: the default, and explicit small ones.
MaxSizes(b) == {MAX_IMAGE_SIZE_BYTES(b), 1, 2}

\* The floors a call is made with: the default 10, and explicit ones.
MinQualities == {0, 10, 50, 90, 95}

\* Buffer and encoding sizes around a ceiling.
SizesAround(max_size) ==
    {n \in {0, max_size - 1, max_size, max_size + 1} : n >= 0}

\* What Pillow makes of the buffer's content: an image it writes as JPEG
\* ("RGB"), an image in a mode the JPEG encoder refuses ("RGBA"), or bytes
\* Image.open does not identify ("undecodable").
Contents == {"RGB", "RGBA", "undecodable"}

\* The arguments of a call.
Calls(b) ==
    UNION {{[pc |-> "call", in_size |-> in_size, content |-> content,
             min_quality |-> min_quality, max_size |-> max_size,
             quality |-> None, out_size |-> None, encodings |-> 0,
             result |-> None, error |-> None] :
               min_quality \in MinQualities, content \in Contents,
               in_size \in SizesAround(max_size)} :
           max_size \in MaxSizes(b)}

\* An inverted comparison.
over_ceiling(size, max_size) == size > max_size

\* `out_buffer.tell() < max_size`
under_ceiling(size, max_size) == size < max_size

\* A loop that stops one quality short of the floor.
above_floor(quality, min_quality) == quality > min_quality

\* `while quality >= min_quality`
keeps_trying(quality, min_quality) == quality >= min_quality

\* `in_size <= max_size`
within_ceiling(size, max_size) == size <= max_size

\* `if in_size <= max_size: return in_buffer`
compress_return_input ==
    /\ img.pc = "call"
    /\ within_ceiling(img.in_size, img.max_size)
    /\ img' = [img EXCEPT !.pc = "returned", !.result = img.in_size]
    /\ UNCHANGED <<files, workers, call, images, bot, pc, runs, disk, shelf, todo, cur, status, address,
                   thread_root, thread_parent, resp, max_details, message,
                   published, exit>>

\* `image = Image.open(in_buffer); quality = 90`
compress_open ==
    /\ img.pc = "call"
    /\ ~within_ceiling(img.in_size, img.max_size)
    /\ img.content # "undecodable"
    /\ img' = [img EXCEPT !.pc = "loop", !.quality = 90]
    /\ UNCHANGED <<files, workers, call, images, bot, pc, runs, disk, shelf, todo, cur, status, address,
                   thread_root, thread_parent, resp, max_details, message,
                   published, exit>>

\* Image.open raises on bytes it does not identify as an image.
compress_open_raise ==
    /\ img.pc = "call"
    /\ ~within_ceiling(img.in_size, img.max_size)
    /\ img.content = "undecodable"
    /\ img' = [img EXCEPT !.pc = "raised", !.error = "UnidentifiedImageError"]
    /\ UNCHANGED <<files, workers, call, images, bot, pc, runs, disk, shelf, todo, cur, status, address,
                   thread_root, thread_parent, resp, max_details, message,
                   published, exit>>

\* One turn of the loop: encode at `quality`; return the encoding if it is
\* under the ceiling, else lower the quality by 10.
compress_save ==
    /\ img.pc = "loop"
    /\ keeps_trying(img.quality, img.min_quality)
    /\ img.content = "RGB"
    /\ \E out_size \in SizesAround(img.max_size) :
           /\ out_size > 0
           /\ IF under_ceiling(out_size, img.max_size)
              THEN img' = [img EXCEPT !.pc = "returned", !.result = out_size,
                                      !.out_size = out_size, !.encodings = @ + 1]
              ELSE img' = [img EXCEPT !.quality = @ - 10, !.out_size = out_size,
                                      !.encodings = @ + 1]
    /\ UNCHANGED <<files, workers, call, images, bot, pc, runs, disk, shelf, todo, cur, status, address,
                   thread_root, thread_parent, resp, max_details, message,
                   published, exit>>

\* image.save(out_buffer, "JPEG", ...) raises OSError for a mode the JPEG
\* encoder does not write.
compress_save_raise ==
    /\ img.pc = "loop"
    /\ keeps_trying(img.quality, img.min_quality)
    /\ img.content = "RGBA"
    /\ img' = [img EXCEPT !.pc = "raised", !.error = "OSError"]
    /\ UNCHANGED <<files, workers, call, images, bot, pc, runs, disk, shelf, todo, cur, status, address,
                   thread_root, thread_parent, resp, max_details, message,
                   published, exit>>

\* The loop is over: `raise ImageTooLarge()`
compress_too_large ==
    /\ img.pc = "loop"
    /\ ~keeps_trying(img.quality, img.min_quality)
    /\ img' = [img EXCEPT !.pc = "raised", !.error = "ImageTooLarge"]
    /\ UNCHANGED <<files, workers, call, images, bot, pc, runs, disk, shelf, todo, cur, status, address,
                   thread_root, thread_parent, resp, max_details, message,
                   published, exit>>

(***************************************************************************)
(* cville-gis-scrape: workers over the rows of the CSV, and the files of   *)
(* the images directory.                                                   *)
(***************************************************************************)
MaxBuckets == 2

\* The ParcelNumber column of Parcel_Area_Details.csv, one row per parcel.
Details == <<"P1", "P2", "P3">>

\* Every row from bucket_index on.
bucket_tail(details, bucket_index, buckets) ==
    SubSeq(details, bucket_index + 1, Len(details))

\* Line 65: details[bucket_index:len(details):buckets]
bucket_slice(details, bucket_index, buckets) ==
    LET n == IF Len(details) > bucket_index
             THEN (Len(details) - bucket_index + buckets - 1) \div buckets
             ELSE 0
    IN  [k \in 1 .. n |-> details[bucket_index + (k - 1) * buckets + 1]]

\* A file that exists is skipped whatever the flag.
skips_existing(path_exists, overwrite) == path_exists

\* Line 70
skips(path_exists, overwrite) == path_exists /\ ~overwrite

\* Before the first run: some images are there, downloaded in full, and one
\* process per bucket index is still to be started.
InitScrape ==
    /\ \E present \in SUBSET Range(Details) :
           files = [parcel \in present |-> [complete |-> TRUE, written |-> 0]]
    /\ \E buckets \in 1 .. MaxBuckets :
           workers = [bucket_index \in 0 .. buckets - 1 |->
                         [pc |-> "idle", run |-> 0, overwrite |-> FALSE,
                          rows |-> <<>>, slice |-> <<>>, scraped |-> {},
                          exit |-> "none"]]
    /\ bot = "scrape"
    /\ pc = "idle"
    /\ runs = 0
    /\ disk = Empty
    /\ shelf = Empty
    /\ todo = <<>>
    /\ cur = NoRecord
    /\ status = Unbound
    /\ address = Unbound
    /\ thread_root = None
    /\ thread_parent = None
    /\ resp = None
    /\ max_details = 0
    /\ message = Unbound
    /\ published = <<>>
    /\ exit = [how |-> "none", key |-> None]
    /\ img = NoImage
    /\ images = <<>>
    /\ call = NoCall

\* Lines 49-65: a process is started with its bucket index, with or without
\* --overwrite, and takes its slice of the rows.
scrape_Start ==
    /\ \E w \in DOMAIN workers, overwrite \in BOOLEAN :
           /\ workers[w].pc = "idle" /\ runs < MaxRuns
           /\ LET details == bucket_slice(Details, w, Cardinality(DOMAIN workers))
              IN  workers' = [workers EXCEPT ![w] =
                      [pc |-> "loop", run |-> workers[w].run + 1,
                       overwrite |-> overwrite, rows |-> details,
                       slice |-> details, scraped |-> {}, exit |-> "none"]]
    /\ runs' = runs + 1
    /\ UNCHANGED <<files, bot, pc, disk, shelf, todo, cur, status, address,
                   thread_root, thread_parent, resp, max_details, message,
                   published, exit, img, images, call>>

\* Lines 70-71
scrape_Skip ==
    /\ \E w \in DOMAIN workers :
           /\ workers[w].pc = "loop" /\ workers[w].rows # <<>>
           /\ skips(Head(workers[w].rows) \in DOMAIN files, workers[w].overwrite)
           /\ workers' = [workers EXCEPT ![w].rows = Tail(@)]
    /\ UNCHANGED <<files, bot, pc, runs, disk, shelf, todo, cur, status, address,
                   thread_root, thread_parent, resp, max_details, message,
                   published, exit, img, images, call>>

\* Lines 73-77: scrape is called and returns the link of the export.
scrape_Scrape ==
    /\ \E w \in DOMAIN workers :
           /\ workers[w].pc = "loop" /\ workers[w].rows # <<>>
           /\ ~skips(Head(workers[w].rows) \in DOMAIN files, workers[w].overwrite)
           /\ workers' = [workers EXCEPT
                             ![w].pc = "download",
                             ![w].scraped = @ \cup {Head(workers[w].rows)}]
    /\ UNCHANGED <<files, bot, pc, runs, disk, shelf, todo, cur, status, address,
                   thread_root, thread_parent, resp, max_details, message,
                   published, exit, img, images, call>>

\* Lines 17-19: the request is answered with a success status and the file is
\* opened with mode "wb": it exists, empty, from here on.
download_open ==
    /\ \E w \in DOMAIN workers :
           /\ workers[w].pc = "download"
           /\ LET parcel_number == Head(workers[w].rows)
                  written == IF parcel_number \in DOMAIN files
                             THEN files[parcel_number].written ELSE 0
              IN  files' = (parcel_number :> [complete |-> FALSE,
                                              written |-> written + 1]) @@ files
           /\ workers' = [workers EXCEPT ![w].pc = "writing"]
    /\ UNCHANGED <<bot, pc, runs, disk, shelf, todo, cur, status, address,
                   thread_root, thread_parent, resp, max_details, message,
                   published, exit, img, images, call>>

\* Lines 20-21: every chunk is written and the file is closed.
download_write ==
    /\ \E w \in DOMAIN workers :
           /\ workers[w].pc = "writing"
           /\ files' = [files EXCEPT ![Head(workers[w].rows)].complete = TRUE]
           /\ workers' = [workers EXCEPT ![w].pc = "loop", ![w].rows = Tail(@)]
    /\ UNCHANGED <<bot, pc, runs, disk, shelf, todo, cur, status, address,
                   thread_root, thread_parent, resp, max_details, message,
                   published, exit, img, images, call>>

\* Lines 79-80: an Exception is caught and printed, and the loop goes to the
\* next row.  It comes from scrape (the parcel is then counted as scraped),
\* from requests.get or raise_for_status, or from iter_content or write
\* after the file was opened; nothing removes the file.
scrape_Except ==
    /\ \E w \in DOMAIN workers :
           \/ /\ workers[w].pc = "loop" /\ workers[w].rows # <<>>
              /\ ~skips(Head(workers[w].rows) \in DOMAIN files, workers[w].overwrite)
              /\ workers' = [workers EXCEPT
                                ![w].rows = Tail(@),
                                ![w].scraped = @ \cup {Head(workers[w].rows)}]
           \/ /\ workers[w].pc \in {"download", "writing"}
              /\ workers' = [workers EXCEPT ![w].pc = "loop", ![w].rows = Tail(@)]
    /\ UNCHANGED <<files, bot, pc, runs, disk, shelf, todo, cur, status, address,
                   thread_root, thread_parent, resp, max_details, message,
                   published, exit, img, images, call>>

\* The process is interrupted (KeyboardInterrupt is no Exception) or killed.
scrape_Interrupt ==
    /\ \E w \in DOMAIN workers :
           /\ workers[w].pc \in {"loop", "download", "writing"}
           /\ workers' = [workers EXCEPT ![w].pc = "idle", ![w].exit = "killed"]
    /\ UNCHANGED <<files, bot, pc, runs, disk, shelf, todo, cur, status, address,
                   thread_root, thread_parent, resp, max_details, message,
                   published, exit, img, images, call>>

\* Line 67: the rows are exhausted and the script ends.
scrape_Finish ==
    /\ \E w \in DOMAIN workers :
           /\ workers[w].pc = "loop" /\ workers[w].rows = <<>>
           /\ workers' = [workers EXCEPT ![w].pc = "idle", ![w].exit = "returned"]
    /\ UNCHANGED <<files, bot, pc, runs, disk, shelf, todo, cur, status, address,
                   thread_root, thread_parent, resp, max_details, message,
                   published, exit, img, images, call>>

(***************************************************************************)
(* Calls of the pure functions, each from its arguments to its result.     *)
(***************************************************************************)
\* SaleDate values (in seconds): 2024-10-01, the last second of 2019, the
\* first of 2020, 2000-02-29, 2010-01-01, 1999-12-31.
SaleDates == {1727740800, 1577836799, 1577836800, 951782400, 1262304000, 946598400}

SaleAmounts == {1, 999, 1000, 99000, 123456, 1250000, 10000000}

ParcelCounts == {0, 1, 2, 3, 12}

format_previous_sale_calls ==
    {[fn |-> "format_previous_sale", pc |-> "call",
      sale |-> [SaleDate |-> d, SaleAmount |-> a], parcel_count |-> n,
      result |-> None] :
        d \in SaleDates, a \in SaleAmounts, n \in ParcelCounts}

\* Owner names of detail records: businesses by suffix, by list, and others.
OwnerNames ==
    {"ACME HOLDINGS LLC", "SMITH JOHN", "DOE JANE", "CITY OF CHARLOTTESVILLE",
     "LLC PARTNERS", "VELIKY, LC"}

\* Calls of get_status as main makes them: a sale with a price, the size of
\* its group, its index in the group, the parcel's one detail record.
get_status_calls ==
    UNION {{[fn |-> "get_status", pc |-> "call", sale |-> sale,
             group_count |-> n, index |-> i,
             details |-> [properties |->
                            [properties_of(sale.ParcelNumber)
                               EXCEPT !.OwnerName = o]],
             result |-> None] :
               sale \in {r \in SaleRecords : r.SaleAmount # 0},
               i \in 0 .. n - 1, o \in OwnerNames} : n \in 1 .. 3}

call_get_status ==
    /\ call.pc = "call" /\ call.fn = "get_status"
    /\ call' = [call EXCEPT !.pc = "returned",
                            !.result = get_status(call.sale, call.group_count,
                                                  call.index, call.details)]
    /\ UNCHANGED <<files, workers, bot, pc, runs, disk, shelf, todo, cur, status, address,
                   thread_root, thread_parent, resp, max_details, message,
                   published, exit, img, images>>

\* Row lists of to_post: distinct rows in date order.
MaxRows == 3

post_groups_calls ==
    {[fn |-> "post_groups", pc |-> "call", rows |-> rows, i |-> 1,
      groups |-> <<>>, warnings |-> <<>>, result |-> None] :
        rows \in {r \in ListsOver(AlbRows, MaxRows) : sorted_by_date(r)}}

\* Lines 303-318: one iteration of the grouping loop.
call_post_groups_row ==
    /\ call.pc = "call" /\ call.fn = "post_groups"
    /\ call.i <= Len(call.rows)
    /\ LET row == call.rows[call.i]
       IN  call' = [call EXCEPT
                      !.i = @ + 1,
                      !.groups = group_row(call.groups, row),
                      !.warnings = IF multiple_matches(call.groups, row)
                                   THEN Append(@, row) ELSE @]
    /\ UNCHANGED <<files, workers, bot, pc, runs, disk, shelf, todo, cur, status, address,
                   thread_root, thread_parent, resp, max_details, message,
                   published, exit, img, images>>

\* Line 320: the loop is over.
call_post_groups_done ==
    /\ call.pc = "call" /\ call.fn = "post_groups"
    /\ call.i > Len(call.rows)
    /\ call' = [call EXCEPT !.pc = "returned", !.result = call.groups]
    /\ UNCHANGED <<files, workers, bot, pc, runs, disk, shelf, todo, cur, status, address,
                   thread_root, thread_parent, resp, max_details, message,
                   published, exit, img, images>>

\* Rows of the proxy list (list_proxies).
MaxProxies == 3

Proxies ==
    { [IPAddress |-> "192.0.2.1", Port |-> "8080"],
      [IPAddress |-> "198.51.100.7", Port |-> "3128"] }

\* choose_proxy, line 85.
proxy_addr(proxy) == "http://" \o proxy.IPAddress \o ":" \o proxy.Port

\* The loop passes over a proxy.
proxy_after_next(i) == i + 2

\* The `for` of line 84 moves to the next proxy.
next_proxy(i) == i + 1

\* checks: the calls of check_func made so far, each with the position of
\* its proxy and whether it raised.
choose_proxy_calls ==
    {[fn |-> "choose_proxy", pc |-> "call", proxies |-> proxies, i |-> 1,
      checks |-> <<>>, result |-> None] :
        proxies \in UNION {[1..n -> Proxies] : n \in 0..MaxProxies}}

\* Lines 87-89: the check returns, and so does choose_proxy.
call_choose_proxy_pass ==
    /\ call.pc = "call" /\ call.fn = "choose_proxy"
    /\ call.i <= Len(call.proxies)
    /\ call' = [call EXCEPT
                  !.pc = "returned",
                  !.checks = Append(@, [proxy |-> call.i, raised |-> FALSE]),
                  !.result = proxy_addr(call.proxies[call.i])]
    /\ UNCHANGED <<files, workers, bot, pc, runs, disk, shelf, todo, cur, status, address,
                   thread_root, thread_parent, resp, max_details, message,
                   published, exit, img, images>>

\* Lines 87-91: the check raises; the bare except logs and the loop goes on.
call_choose_proxy_fail ==
    /\ call.pc = "call" /\ call.fn = "choose_proxy"
    /\ call.i <= Len(call.proxies)
    /\ call' = [call EXCEPT
                  !.i = next_proxy(@),
                  !.checks = Append(@, [proxy |-> call.i, raised |-> TRUE])]
    /\ UNCHANGED <<files, workers, bot, pc, runs, disk, shelf, todo, cur, status, address,
                   thread_root, thread_parent, resp, max_details, message,
                   published, exit, img, images>>

\* The list is exhausted: the function falls off its end and returns None.
call_choose_proxy_none ==
    /\ call.pc = "call" /\ call.fn = "choose_proxy"
    /\ call.i > Len(call.proxies)
    /\ call' = [call EXCEPT !.pc = "returned", !.result = None]
    /\ UNCHANGED <<files, workers, bot, pc, runs, disk, shelf, todo, cur, status, address,
                   thread_root, thread_parent, resp, max_details, message,
                   published, exit, img, images>>

\* Two calls of get_status for records that differ in the owner name only.
get_status_twice_calls ==
    {[fn |-> "get_status_twice", pc |-> "call", sale |-> sale,
      group_count |-> n, index |-> 0,
      details |-> [properties |->
                     [properties_of(sale.ParcelNumber) EXCEPT !.OwnerName = o]],
      other_details |-> [properties |->
                     [properties_of(sale.ParcelNumber) EXCEPT !.OwnerName = o2]],
      result |-> None, other_result |-> None] :
        sale \in {r \in SaleRecords : r.SaleAmount # 0}, n \in 1 .. 2,
        o \in OwnerNames, o2 \in OwnerNames}

call_get_status_twice ==
    /\ call.pc = "call" /\ call.fn = "get_status_twice"
    /\ call' = [call EXCEPT
                  !.pc = "returned",
                  !.result = get_status(call.sale, call.group_count,
                                        call.index, call.details)[1],
                  !.other_result = get_status(call.sale, call.group_count,
                                              call.index, call.other_details)[1]]
    /\ UNCHANGED <<files, workers, bot, pc, runs, disk, shelf, todo, cur, status, address,
                   thread_root, thread_parent, resp, max_details, message,
                   published, exit, img, images>>

\* Two calls of everylotcville's format_previous_sale for properties that
\* differ in the owner name only.
lot_format_previous_sale_twice_calls ==
    {[fn |-> "lot_format_previous_sale_twice", pc |-> "call",
      sale |-> [SaleDate |-> 1262304000, SaleAmount |-> 99000],
      parcel_count |-> n,
      details |-> [properties |-> [properties_of(10) EXCEPT !.OwnerName = o]],
      other_details |-> [properties |-> [properties_of(10) EXCEPT !.OwnerName = o2]],
      result |-> None, other_result |-> None] :
        n \in {1, 3}, o \in OwnerNames, o2 \in OwnerNames}

call_lot_format_previous_sale_twice ==
    /\ call.pc = "call" /\ call.fn = "lot_format_previous_sale_twice"
    /\ call' = [call EXCEPT
                  !.pc = "returned",
                  !.result = lot_format_previous_sale(
                                 call.details.properties, call.sale,
                                 call.parcel_count),
                  !.other_result = lot_format_previous_sale(
                                 call.other_details.properties, call.sale,
                                 call.parcel_count)]
    /\ UNCHANGED <<files, workers, bot, pc, runs, disk, shelf, todo, cur, status, address,
                   thread_root, thread_parent, resp, max_details, message,
                   published, exit, img, images>>

call_format_previous_sale ==
    /\ call.pc = "call" /\ call.fn = "format_previous_sale"
    /\ call' = [call EXCEPT !.pc = "returned",
                            !.result = format_previous_sale(call.sale, call.parcel_count)]
    /\ UNCHANGED <<files, workers, bot, pc, runs, disk, shelf, todo, cur, status, address,
                   thread_root, thread_parent, resp, max_details, message,
                   published, exit, img, images>>

(***************************************************************************)
(* Properties.                                                             *)
(***************************************************************************)
PublishedKeys == {published[i].key : i \in 1..Len(published)}

\* The posts of the current run (of the last run, between runs), by position.
ThisRun == {i \in 1..Len(published) : published[i].run = runs}

\* The posts of the current run whose key the ledger file does not hold.
Unrecorded == {i \in ThisRun : published[i].key \notin DOMAIN disk}

\* A step sends posts only for keys that are neither in the ledger the run
\* reads nor in the ledger file.
SentToUnlistedKey ==
    bot \in {"sale", "permit", "alb"} =>
        \A i \in 1..Len(published') :
            i > Len(published) =>
                /\ published'[i].key \notin DOMAIN shelf
                /\ published'[i].key \notin DOMAIN disk

\* C1: in everysalecville, everypermitcville and everysalealbmrl a record
\* whose key is in the ledger when the run reaches it is skipped: no step of
\* this run or of a later run sends a post for a key the ledger holds.
C1_LedgerKeySkipped == [][SentToUnlistedKey]_vars

\* A later run of everysalecville has skipped a record of the ledger (its
\* post became thread_parent) and has sent nothing yet.
C1_Witness ==
    /\ bot = "sale" /\ runs = 2 /\ pc = "loop"
    /\ ThisRun = {}
    /\ \E i \in 1..Len(published) :
           /\ thread_parent = published[i].ref
           /\ published[i].key \in DOMAIN shelf

\* C2: between runs, whatever ended the last one, the ledger holds a key if
\* and only if a post was published for it.
C2_LedgerIffPublished ==
    (bot \in {"sale", "permit", "lot"} /\ pc = "idle") =>
        DOMAIN disk = PublishedKeys

\* A step keeps every entry of the ledger file with its value, and every
\* entry of the open shelf for as long as the run lasts.
EntriesKept ==
    /\ \A k \in DOMAIN disk : k \in DOMAIN disk' /\ disk'[k] = disk[k]
    /\ (pc # "idle" /\ pc' # "idle") =>
           \A k \in DOMAIN shelf : k \in DOMAIN shelf' /\ shelf'[k] = shelf[k]

\* C3: once written, a ledger entry is never overwritten, modified or
\* deleted by a later step of this run or of a later run: the value under
\* the key stays the value first written.
C3_EntryImmutable == [][EntriesKept]_vars

\* A second run of everypermitcville is about to sync a new entry into a
\* ledger that holds an earlier one.
C3_Witness ==
    /\ bot = "permit" /\ runs = 2 /\ pc = "sync"
    /\ DOMAIN disk # {}
    /\ DOMAIN shelf # DOMAIN disk

\* C4: of the posts of a run, only the one in flight (the last one sent) can
\* be missing from the ledger file; once the loop has moved on none is.  So
\* whenever the run stops, the next run finds every earlier record.
C4_OnlyInFlightUnrecorded ==
    /\ Unrecorded \subseteq {Len(published)}
    /\ pc = "loop" => Unrecorded = {}

\* A run was killed with its second post in flight: the first is recorded,
\* the second is not.
C4_Witness ==
    /\ pc = "idle" /\ exit.how = "killed"
    /\ Cardinality(ThisRun) = 2
    /\ Cardinality(Unrecorded) = 1

\* C5: in everysalecville no post is sent and no entry is written for a
\* record whose get_status raised.
C5_FailedRecordSkipped ==
    (bot = "sale" /\ pc \in {"store", "sync"}) => ~cur.failed

\* C6: an assertion failure ends the processing of its record only, so a run
\* it ended has no records left unprocessed.
C6_AssertionAbortsRecordOnly ==
    (pc = "idle" /\ exit.how = "AssertionError") => todo = <<>>

permit_with_id(permit_id) == CHOOSE permit \in Permits : permit_id_of(permit) = permit_id

\* The message of a permit formatted with n details.
message_with(permit_id, n) ==
    format_message(permit_with_id(permit_id), permit_details_of(permit_id),
                   permit_url_of(permit_id), n)

PermitIds == {permit_id_of(permit) : permit \in Permits}

\* format_message tabulated: each permit's message for each max_details.
MessagesOf ==
    [permit_id \in PermitIds |->
        [n \in 0..MAX_MAX_DETAILS |-> message_with(permit_id, n)]]

\* C7: every message everypermitcville hands to send_post has at most
\* MAX_POST_LENGTH characters.
C7_PostWithinLimit ==
    bot = "permit" =>
        /\ \A i \in 1..Len(published) : Len(published[i].text) <= MAX_POST_LENGTH
        /\ pc = "send" => Len(message) <= MAX_POST_LENGTH

\* A message of exactly MAX_POST_LENGTH characters was posted.
C7_Witness ==
    /\ bot = "permit"
    /\ \E i \in 1..Len(published) : Len(published[i].text) = MAX_POST_LENGTH

TooLongAtZero(permit_id) == Len(MessagesOf[permit_id][0]) > MAX_POST_LENGTH

\* No step posts or records a permit whose message is too long with
\* max_details = 0, and the step the loop takes at max_details = 0 for such
\* a permit ends the run at that permit.
TooLongStep ==
    bot = "permit" =>
        /\ \A permit \in Permits :
              TooLongAtZero(permit_id_of(permit)) =>
                  /\ permit_id_of(permit) \notin PublishedKeys'
                  /\ permit_id_of(permit) \notin DOMAIN shelf' \cup DOMAIN disk'
        /\ (pc = "format" /\ max_details = 0 /\ TooLongAtZero(cur.key)) =>
              /\ pc' = "idle"
              /\ exit'.how \in {"AssertionError", "killed"}
              /\ exit'.key = cur.key

\* C8: a permit whose message is too long even with max_details = 0 is never
\* posted and never entered in the ledger; when the loop reaches
\* max_details = 0 for it the run ends with an AssertionError at that permit
\* (unless the process is killed first).
C8_TooLongRaises == [][TooLongStep]_vars

\* A run ended with the AssertionError of a permit that is not posted.
C8_Witness ==
    /\ bot = "permit" /\ pc = "idle"
    /\ exit.how = "AssertionError"
    /\ TooLongAtZero(exit.key)
    /\ exit.key \notin PublishedKeys

\* The n in 0..MAX_MAX_DETAILS with which the permit's message fits.
Fitting(permit_id) ==
    {n \in 0..MAX_MAX_DETAILS : Len(MessagesOf[permit_id][n]) <= MAX_POST_LENGTH}

\* C9: the loop formats with max_details = 5, 4, ... one at a time; what is
\* sent is the message with the largest max_details in 0..5 that fits, after
\* at most 6 formattings.
C9_LargestFittingDetails ==
    bot = "permit" =>
        /\ pc = "format" =>
              /\ max_details \in 0..MAX_MAX_DETAILS
              /\ cur.formattings = MAX_MAX_DETAILS - max_details
        /\ pc = "send" =>
              /\ max_details \in Fitting(cur.key)
              /\ \A n \in Fitting(cur.key) : n <= max_details
              /\ message = MessagesOf[cur.key][max_details]
              /\ cur.formattings = MAX_MAX_DETAILS - max_details + 1
              /\ cur.formattings <= MAX_MAX_DETAILS + 1
        /\ \A i \in 1..Len(published) :
              LET id == published[i].key
              IN  /\ Fitting(id) # {}
                  /\ published[i].text = MessagesOf[id][SetMax(Fitting(id))]

\* The sixth formatting, with max_details = 0, produced the message to send.
C9_Witness ==
    /\ bot = "permit" /\ pc = "send"
    /\ max_details = 0
    /\ cur.formattings = 6

\* C10 as stated: every call of maybe_compress_image ends by returning a
\* buffer of at most max_size bytes or by raising ImageTooLarge.
C10_ReturnsWithinOrTooLarge ==
    img.pc \in {"returned", "raised"} =>
        \/ img.pc = "returned" /\ img.result <= img.max_size
        \/ img.pc = "raised" /\ img.error = "ImageTooLarge"

\* C10: maybe_compress_image never returns a buffer of more than max_size
\* bytes; a call that does not return raises ImageTooLarge, or, for a buffer
\* over the ceiling that Pillow cannot decode or cannot write as JPEG,
\* Pillow's own error.
C10_NeverReturnsOversize ==
    /\ img.pc = "returned" => img.result <= img.max_size
    /\ img.pc = "raised" =>
          /\ img.in_size > img.max_size
          /\ \/ img.error = "ImageTooLarge" /\ img.content # "undecodable"
             \/ img.error = "UnidentifiedImageError" /\ img.content = "undecodable"
             \/ img.error = "OSError" /\ img.content = "RGBA"

\* The second encoding came out under the default ceiling and was returned.
C10_Witness ==
    /\ img.pc = "returned"
    /\ img.encodings = 2
    /\ img.max_size = MAX_IMAGE_SIZE_BYTES(bot)
    /\ img.in_size > img.max_size
    /\ img.result = img.max_size - 1

\* The qualities 90, 80, ... that are not below the floor.
QualitiesTried(min_quality) ==
    {q \in {90 - 10 * k : k \in 0..9} : q >= min_quality}

\* What one step of a call does to the loop: it is entered at quality 90 for
\* an input over the ceiling; a turn that goes on has encoded at a quality
\* not below the floor to a size not under the ceiling, and lowers the
\* quality by 10; a turn that returns returns the encoding it just made,
\* which is under the ceiling; ImageTooLarge is raised with the quality below
\* the floor, after the encoding at the lowest quality not below the floor
\* (if there is one) came out not under the ceiling.
CompressLoopStep ==
    /\ (img.pc = "call" /\ img'.pc = "loop") =>
          /\ img.in_size > img.max_size
          /\ img'.quality = 90
    /\ (img.pc = "loop" /\ img'.pc = "loop") =>
          /\ img.quality >= img.min_quality
          /\ img'.quality = img.quality - 10
          /\ img'.encodings = img.encodings + 1
          /\ img'.out_size >= img.max_size
    /\ (img.pc = "loop" /\ img'.pc = "returned") =>
          /\ img.quality >= img.min_quality
          /\ img'.encodings = img.encodings + 1
          /\ img'.result = img'.out_size
          /\ img'.out_size < img.max_size
    /\ (img.pc = "loop" /\ img'.pc = "raised" /\ img'.error = "ImageTooLarge") =>
          /\ img.quality < img.min_quality
          /\ img.encodings = Cardinality(QualitiesTried(img.min_quality))
          /\ img.encodings > 0 =>
                /\ img.out_size >= img.max_size
                /\ img.quality + 10 >= img.min_quality

\* In the loop the quality is 90 less 10 per encoding made, and no more
\* encodings are made than there are qualities not below the floor: 9 for
\* min_quality = 10.
EncodingsCounted ==
    img.pc \in {"loop", "returned", "raised"} =>
        /\ img.pc = "loop" => img.quality = 90 - 10 * img.encodings
        /\ img.encodings <= Cardinality(QualitiesTried(img.min_quality))
        /\ img.min_quality = 10 => img.encodings <= 9

CompressDone == img.pc \in {"returned", "raised"}

\* C11: for an input over the ceiling maybe_compress_image encodes at
\* 90, 80, ... in steps of 10 while quality >= min_quality, returns the first
\* encoding under the ceiling, raises ImageTooLarge only once the quality is
\* below the floor and the last encoding was not under the ceiling, and
\* always terminates (at most 9 encodings for min_quality = 10).
C11_CompressLoop ==
    /\ [][CompressLoopStep]_vars
    /\ []EncodingsCounted
    /\ <>CompressDone

\* With the default floor of 10 all nine encodings were made and
\* ImageTooLarge was raised.
C11_Witness ==
    /\ img.pc = "raised" /\ img.error = "ImageTooLarge"
    /\ img.min_quality = 10
    /\ img.encodings = 9
    /\ img.out_size >= img.max_size

\* C12: every image everysalecville or everylotcville is about to pass to
\* send_images has at most MAX_IMAGE_SIZE_BYTES bytes.
C12_ImagesWithinCeiling ==
    (bot \in {"sale", "lot"} /\ pc = "send") =>
        \A i \in 1..Len(images) : images[i] <= MAX_IMAGE_SIZE_BYTES(bot)
\* Days from 1970-01-01 to the first day of year y (Gregorian leap years).
DaysBeforeYear(y) ==
    LET leaps(n) == n \div 4 - n \div 100 + n \div 400
    IN  365 * (y - 1970) + leaps(y - 1) - leaps(1969)

\* The calendar year a timestamp falls in.
YearOf(seconds) ==
    CHOOSE y \in 1970..2100 :
        /\ DaysBeforeYear(y) * 86400 <= seconds
        /\ seconds < DaysBeforeYear(y + 1) * 86400

\* The decimal digits of n with a comma before every group of three digits
\* counted from the right.
WithCommas(n) ==
    LET digits == ToString(n)
        RECURSIVE from(_)
        from(i) ==
            IF i > Len(digits) THEN ""
            ELSE (IF i > 1 /\ (Len(digits) - i + 1) % 3 = 0 THEN "," ELSE "")
                   \o SubSeq(digits, i, i) \o from(i + 1)
    IN  from(1)

\* C13: format_previous_sale returns exactly "Last sold in <year> for
\* $<amount with thousands commas>", then " (<parcel_count> parcels)" if and
\* only if parcel_count > 1, then ".".
C13_FormatPreviousSale ==
    (call.pc = "returned" /\ call.fn = "format_previous_sale") =>
        call.result =
            "Last sold in " \o ToString(YearOf(call.sale.SaleDate)) \o " for $"
              \o WithCommas(call.sale.SaleAmount)
              \o (IF call.parcel_count > 1
                  THEN " (" \o ToString(call.parcel_count) \o " parcels)"
                  ELSE "")
              \o "."

\* The case of tests.py: three parcels sold in 2024 for 123456.
C13_Witness ==
    /\ call.pc = "returned" /\ call.fn = "format_previous_sale"
    /\ call.parcel_count = 3
    /\ call.result = "Last sold in 2024 for $123,456 (3 parcels)."


\* str.__contains__
Contains(s, t) ==
    \E i \in 1 .. Len(s) - Len(t) + 1 : SubSeq(s, i, i + Len(t) - 1) = t

\* C14: get_status writes "Parcel i of N." (i the position counted from 1,
\* N the group size) if and only if the group has more than one record, and
\* the price per square foot and the previous sale only for a group of one.
C14_ClausesFollowGroupSize ==
    (call.pc = "returned" /\ call.fn = "get_status") =>
        LET text == call.result[1]
            N == call.group_count
        IN  /\ Contains(text, " Parcel ") <=> N > 1
            /\ N > 1 => Contains(text, ". Parcel " \o ToString(call.index + 1)
                                         \o " of " \o ToString(N) \o ".")
            /\ Contains(text, " per square foot.") => N = 1
            /\ Contains(text, "Last sold in ") => N = 1

\* The second record of a group of two, for a parcel that has finished
\* square feet and an earlier sale: only the parcel clause is written.
C14_Witness ==
    /\ call.pc = "returned" /\ call.fn = "get_status"
    /\ call.group_count = 2 /\ call.index = 1
    /\ call.sale.ParcelNumber = 10
    /\ Contains(call.result[1], ". Parcel 2 of 2.")

\* The groups a row matches without being their key: same price, same date,
\* owner ratio of at least 95.
Grouping == call.fn = "post_groups" /\ call.pc = "call" /\ call.i <= Len(call.rows)

Matches ==
    LET row == call.rows[call.i]
    IN  {g \in 1..Len(call.groups) :
            /\ call.groups[g].key[1] = row.saleprice
            /\ call.groups[g].key[2] = row.saledate1
            /\ fuzz_ratio(call.groups[g].key[3], row.currowner) >= 95}

NewKey ==
    LET row == call.rows[call.i]
    IN  \A g \in 1..Len(call.groups) :
            call.groups[g].key # <<row.saleprice, row.saledate1, row.currowner>>

AmbiguousStep ==
    (Grouping /\ NewKey /\ Cardinality(Matches) > 1) =>
        LET row == call.rows[call.i]
        IN  /\ call'.warnings = Append(call.warnings, row)
            /\ call'.groups =
                  Append(call.groups,
                         [key |-> <<row.saleprice, row.saledate1, row.currowner>>,
                          rows |-> <<row>>])

\* C15: a row whose exact key is not yet a group and that more than one
\* existing group matches is logged with a warning and becomes a new group
\* of its own; no matching group receives it.
C15_AmbiguousRowOwnGroup == [][AmbiguousStep]_vars

\* A2 after A1 and A3, which do not match each other: A2 is warned about and
\* is the third group.
C15_Witness ==
    /\ call.fn = "post_groups" /\ call.pc = "returned"
    /\ Len(call.warnings) = 1
    /\ Len(call.result) = 3
    /\ call.result[3].rows = call.warnings

SingleMatchStep ==
    (Grouping /\ NewKey /\ Cardinality(Matches) = 1) =>
        LET row == call.rows[call.i]
            g == CHOOSE m \in Matches : TRUE
        IN  /\ call'.groups = [call.groups EXCEPT ![g].rows = Append(@, row)]
            /\ call'.warnings = call.warnings

Partitioned ==
    (call.fn = "post_groups" /\ call.pc = "returned") =>
        /\ \A i \in 1..Len(call.rows) :
               Cardinality({<<g, j>> \in UNION {{<<g2, j2>> : j2 \in 1..Len(call.result[g2].rows)} :
                                                   g2 \in 1..Len(call.result)} :
                               call.result[g].rows[j] = call.rows[i]}) = 1
        /\ \A g \in 1..Len(call.result) : \A j \in 1..Len(call.result[g].rows) :
               /\ call.result[g].rows[j].saleprice = call.result[g].rows[1].saleprice
               /\ call.result[g].rows[j].saledate1 = call.result[g].rows[1].saledate1

\* C16: a row whose exact key is not yet a group and that exactly one existing
\* group matches (same price, same date, owner ratio of at least 95) is
\* appended to that group; after grouping every row is in exactly one group
\* and the rows of a group have one price and one date.
C16_SingleMatchAppended == [][SingleMatchStep]_vars /\ []Partitioned

\* A2 joined the group of A1 under A1's key.
C16_Witness ==
    /\ call.fn = "post_groups" /\ call.pc = "returned"
    /\ Len(call.result) = 1
    /\ Len(call.result[1].rows) = 2
    /\ call.result[1].rows[2].currowner # call.result[1].key[3]

\* C17: choose_proxy checks the proxies in list order, returns the address of
\* the first proxy whose check does not raise, checks no proxy after it, and
\* never returns a proxy whose check raised.
C17_FirstPassingProxy ==
    call.fn = "choose_proxy" =>
        LET n == Len(call.checks)
        IN  /\ \A j \in 1..n : call.checks[j].proxy = j
            /\ \A j \in 1..n : ~call.checks[j].raised =>
                   /\ j = n
                   /\ call.pc = "returned"
                   /\ call.result = "http://" \o call.proxies[j].IPAddress
                                       \o ":" \o call.proxies[j].Port
            /\ (call.pc = "returned" /\ call.result # None) =>
                   /\ n >= 1
                   /\ ~call.checks[n].raised

\* Two checks raised, the third proxy passed and is returned.
C17_Witness ==
    /\ call.fn = "choose_proxy" /\ call.pc = "returned"
    /\ Len(call.checks) = 3
    /\ call.checks[1].raised /\ call.checks[2].raised /\ ~call.checks[3].raised
    /\ call.result = proxy_addr(call.proxies[3])
    /\ call.proxies[3] # call.proxies[1]

\* C18: the text names the owner ("sold to <owner>") only when
\* is_probable_business(owner); otherwise it says just "sold", and two records
\* that differ only in a non-business owner name have the same text.
C18_OwnerNamedOnlyIfBusiness ==
    (call.pc = "returned"
       /\ call.fn \in {"get_status_twice", "lot_format_previous_sale_twice"}) =>
        LET owner == call.details.properties.OwnerName
            other == call.other_details.properties.OwnerName
        IN  /\ Contains(call.result, owner) => is_probable_business(owner)
            /\ Contains(call.result, "sold to ") <=> is_probable_business(owner)
            /\ ~is_probable_business(owner) =>
                   Contains(call.result,
                            IF call.fn = "get_status_twice"
                            THEN ", sold on " ELSE "Last sold in ")
            /\ (~is_probable_business(owner) /\ ~is_probable_business(other)) =>
                   call.result = call.other_result

\* Two private owners, one text; the name that begins with LLC is no business.
C18_Witness ==
    /\ call.pc = "returned" /\ call.fn = "get_status_twice"
    /\ call.details.properties.OwnerName = "LLC PARTNERS"
    /\ call.other_details.properties.OwnerName = "DOE JANE"
    /\ call.result = call.other_result
    /\ Contains(call.result, ", sold on ")

\* The records of the current group before the current one that were posted
\* in this run or are in the ledger, by their position in the sorted group.
PostedInRun(key) == {j \in 1..Len(published) : published[j].run = runs /\ published[j].key = key}

EarlierInThread ==
    {i \in 1..cur.index :
        LET key == ToString(cur.sorted_sales[i].ParcelNumber) \o "::"
                     \o cur.sorted_sales[i].BookPage
        IN  PostedInRun(key) # {} \/ key \in DOMAIN shelf}

\* The post of such a record and the root of its thread.
PostOf(key) ==
    IF PostedInRun(key) # {}
    THEN published[CHOOSE j \in PostedInRun(key) : TRUE].ref
    ELSE shelf[key].post

ThreadRootOf(key) ==
    IF PostedInRun(key) # {}
    THEN LET p == published[CHOOSE j \in PostedInRun(key) : TRUE]
         IN  IF p.reply_to.parent = None THEN p.ref ELSE p.reply_to.root
    ELSE shelf[key].thread_root

ThreadedStep ==
    (bot = "sale" /\ Len(published') = Len(published) + 1) =>
        LET reply_to == published'[Len(published')].reply_to
        IN  IF EarlierInThread = {}
            THEN reply_to.parent = None /\ reply_to.root = None
            ELSE LET i == CHOOSE m \in EarlierInThread :
                              \A n \in EarlierInThread : n <= m
                     key == ToString(cur.sorted_sales[i].ParcelNumber) \o "::"
                              \o cur.sorted_sales[i].BookPage
                 IN  /\ reply_to.parent = PostOf(key)
                     /\ reply_to.root = ThreadRootOf(key)

NumberOf(key) ==
    (CHOOSE parcel \in LotParcels : ToString(parcel.ParcelNumber) = key).ParcelNumber

Flagged == {parcel.ParcelNumber : parcel \in
               {q \in LotParcels : ToString(q.ParcelNumber) \in DOMAIN disk}}

LotRunStep ==
    bot = "lot" =>
        /\ Len(published') > Len(published) =>
              LET post == published'[Len(published')]
              IN  /\ Len(published') = Len(published) + 1
                  /\ PostedInRun(post.key) = {}
                  /\ \A j \in 1..Len(published) : published[j].run # runs
                  /\ NumberOf(post.key) \notin Flagged
                  /\ \A parcel \in LotParcels :
                         parcel.ParcelNumber < NumberOf(post.key) =>
                             parcel.ParcelNumber \in Flagged
        /\ \A key \in (DOMAIN shelf' \cup DOMAIN disk') \ (DOMAIN shelf \cup DOMAIN disk) :
              /\ PostedInRun(key) # {}
              /\ Len(published') = Len(published)
              /\ (DOMAIN shelf' \cup DOMAIN disk') \ (DOMAIN shelf \cup DOMAIN disk) = {key}

LotAscending ==
    bot = "lot" =>
        \A j \in 1..Len(published) : \A k \in j..Len(published) :
            /\ NumberOf(published[j].key) <= NumberOf(published[k].key)
            /\ k # j => published[j].run # published[k].run

\* C20: a run of everylotcville posts at most one parcel, the unflagged parcel
\* with the smallest number; it flags exactly that parcel and only after
\* send_images returned; a flagged parcel is never selected again, and the
\* posts of successive runs are in ascending parcel-number order.
C20_OneParcelPerRunInOrder == [][LotRunStep]_vars /\ []LotAscending

\* Two runs: parcel 10, flagged, then parcel 20, flagged.
C20_Witness ==
    /\ bot = "lot" /\ Len(published) = 2
    /\ published[1].key = "10" /\ published[1].run = 1
    /\ published[2].key = "20" /\ published[2].run = 2
    /\ DOMAIN disk = {"10", "20"}

\* The status texts get_status can return for the record behind a key, for
\* any size of its group and any index in it.
OwnStatusTexts ==
    [key \in {ToString(sale.ParcelNumber) \o "::" \o sale.BookPage : sale \in SaleRecords} |->
        UNION {{get_status(sale, n, i,
                           [properties |-> properties_of(sale.ParcelNumber)])[1] :
                    n \in 1 .. Cardinality(SaleRecords), i \in 0 .. Cardinality(SaleRecords) - 1} :
               sale \in {r \in SaleRecords :
                           ToString(r.ParcelNumber) \o "::" \o r.BookPage = key}}]

\* C21: every post everysalecville publishes for a key carries the status
\* text get_status computed from that key's own sale record; text computed
\* for another record is never posted under this key.
C21_OwnStatusPosted ==
    bot = "sale" =>
        \A j \in 1 .. Len(published) :
            published[j].text \in OwnStatusTexts[published[j].key]

\* The ledger entries of one book page.
EntriesOfPage(book_page) == {key \in DOMAIN disk : disk[key].book_page = book_page}

\* C22: after any sequence of everysalecville runs all ledger entries of a
\* book page record the same thread_root and exactly one of them has
\* thread_parent = None, also when a record with a smaller parcel number is
\* fetched after others of the page were posted.
C22_OneThreadPerBookPage ==
    (bot = "sale" /\ pc = "idle") =>
        \A key \in DOMAIN disk :
            LET entries == EntriesOfPage(disk[key].book_page)
            IN  /\ \A other \in entries : disk[other].thread_root = disk[key].thread_root
                /\ Cardinality({e \in entries : disk[e].thread_parent = None}) = 1

LotPosted(key) == \E j \in 1 .. Len(published) : published[j].key = key

\* C23: under repeated runs of everylotcville every unposted parcel whose own
\* processing succeeds whenever it is attempted is eventually posted, even if
\* the processing of another parcel fails on every attempt.
C23_HealthyParcelsPosted == <>LotPosted("20") /\ <>LotPosted("30")

\* The worker that is writing the file of a parcel.
Writing(parcel) ==
    {w \in DOMAIN workers :
        workers[w].pc = "writing" /\ Head(workers[w].rows) = parcel}

\* C24: at every point, also after a failed or interrupted scrape or
\* download, images/<parcel>.jpg exists only if the download of that parcel's
\* image completed (or is under way); a failure leaves no file behind.
C24_FileOnlyIfDownloaded ==
    bot = "scrape" =>
        \A parcel \in DOMAIN files :
            files[parcel].complete \/ Writing(parcel) # {}

\* The workers started at least once, and the rows of a worker's slice.
Started == {w \in DOMAIN workers : workers[w].run > 0}

SliceRows(w) == {workers[w].slice[k] : k \in 1 .. Len(workers[w].slice)}

\* C25: for every number of buckets the slices of the workers with bucket
\* index 0..buckets-1 are pairwise disjoint and together hold every row, so
\* concurrent workers never scrape the same row or write the same file.
C25_SlicesPartitionRows ==
    bot = "scrape" =>
        /\ \A w1 \in Started : \A w2 \in Started \ {w1} :
               /\ SliceRows(w1) \cap SliceRows(w2) = {}
               /\ (workers[w1].pc \in {"download", "writing"}
                     /\ workers[w2].pc \in {"download", "writing"}) =>
                      Head(workers[w1].rows) # Head(workers[w2].rows)
        /\ \A w \in Started : Len(workers[w].slice) = Cardinality(SliceRows(w))
        /\ Started = DOMAIN workers =>
               UNION {SliceRows(w) : w \in Started}
                 = {Details[k] : k \in 1 .. Len(Details)}

\* Two workers write at the same time, each a file of its own slice.
C25_Witness ==
    /\ bot = "scrape" /\ DOMAIN workers = {0, 1}
    /\ workers[0].pc = "writing" /\ workers[1].pc = "writing"
    /\ workers[0].slice = <<"P1", "P3">> /\ workers[1].slice = <<"P2">>

\* A step of a worker run without --overwrite.
KeepsExisting(w) ==
    (workers'[w] # workers[w] /\ workers[w].pc # "idle" /\ ~workers[w].overwrite) =>
        /\ \A parcel \in DOMAIN files :
               files'[parcel] # files[parcel] =>
                   workers[w].pc = "writing" /\ Head(workers[w].rows) = parcel
        /\ (workers[w].pc = "loop" /\ workers[w].rows # <<>>
              /\ Head(workers[w].rows) \in DOMAIN files) =>
               /\ workers'[w].scraped = workers[w].scraped
               /\ workers'[w].pc \in {"loop", "idle"}

ScrapeStep == \A w \in DOMAIN workers : KeepsExisting(w)

\* A run with --overwrite that reached its end scraped every row of its slice.
OverwriteScrapesAll ==
    \A w \in DOMAIN workers :
        (workers[w].exit = "returned" /\ workers[w].overwrite) =>
            workers[w].scraped = SliceRows(w)

\* C26: without --overwrite a run never scrapes, downloads or rewrites the
\* image of a parcel whose file exists, and leaves the existing files
\* unchanged; with --overwrite every row of the worker's slice is scraped.
C26_OverwriteOnlyOnRequest == [][ScrapeStep]_vars /\ []OverwriteScrapesAll

\* A second run, with the flag, reached its end and wrote again the file an
\* earlier run had written.
C26_Witness ==
    /\ bot = "scrape"
    /\ \E w \in DOMAIN workers :
           /\ workers[w].exit = "returned" /\ workers[w].overwrite
           /\ workers[w].run = 2
           /\ workers[w].scraped = SliceRows(w)
           /\ \E parcel \in SliceRows(w) \cap DOMAIN files :
                  files[parcel].written = 2 /\ files[parcel].complete

Next ==
    \/ sale_Start \/ sale_Skip \/ sale_SkipNoPrice \/ sale_Process
    \/ sale_get_status \/ sale_images \/ sale_images_raise
    \/ sale_send \/ sale_send_raise \/ sale_store \/ sale_sync
    \/ sale_Finish
    \/ permit_Start \/ permit_Skip \/ permit_get_permit \/ permit_get_permit_raise
    \/ permit_format \/ permit_assert \/ permit_send \/ permit_send_raise
    \/ permit_store \/ permit_sync \/ permit_Finish
    \/ lot_Start \/ lot_status \/ lot_status_raise \/ lot_images \/ lot_images_raise
    \/ lot_send \/ lot_send_raise \/ lot_update \/ lot_commit
    \/ alb_Start \/ alb_Skip \/ alb_media \/ alb_create_post \/ alb_Finish
    \/ Crash

Spec == Init /\ [][Next]_vars

\* The calls of maybe_compress_image, each from its arguments to its outcome.
InitCompress ==
    /\ bot \in {"sale", "lot"}
    /\ img \in Calls(bot)
    /\ pc = "idle"
    /\ runs = 0
    /\ disk = Empty
    /\ shelf = Empty
    /\ todo = <<>>
    /\ cur = NoRecord
    /\ status = Unbound
    /\ address = Unbound
    /\ thread_root = None
    /\ thread_parent = None
    /\ resp = None
    /\ max_details = 0
    /\ message = Unbound
    /\ published = <<>>
    /\ exit = [how |-> "none", key |-> None]
    /\ images = <<>>
    /\ call = NoCall
    /\ files = <<>>
    /\ workers = <<>>

NextCompress ==
    \/ compress_return_input \/ compress_open \/ compress_open_raise
    \/ compress_save \/ compress_save_raise \/ compress_too_large

SpecCompress == InitCompress /\ [][NextCompress]_vars

\* The calls of the pure functions.
InitCalls ==
    /\ call \in format_previous_sale_calls \cup get_status_calls
                  \cup post_groups_calls \cup choose_proxy_calls
                  \cup get_status_twice_calls
                  \cup lot_format_previous_sale_twice_calls
    /\ bot = "sale"
    /\ img = NoImage
    /\ pc = "idle"
    /\ runs = 0
    /\ disk = Empty
    /\ shelf = Empty
    /\ todo = <<>>
    /\ cur = NoRecord
    /\ status = Unbound
    /\ address = Unbound
    /\ thread_root = None
    /\ thread_parent = None
    /\ resp = None
    /\ max_details = 0
    /\ message = Unbound
    /\ published = <<>>
    /\ exit = [how |-> "none", key |-> None]
    /\ images = <<>>
    /\ files = <<>>
    /\ workers = <<>>

NextCalls ==
    \/ call_format_previous_sale
    \/ call_get_status
    \/ call_post_groups_row
    \/ call_post_groups_done
    \/ call_choose_proxy_pass
    \/ call_choose_proxy_fail
    \/ call_choose_proxy_none
    \/ call_get_status_twice
    \/ call_lot_format_previous_sale_twice

SpecCalls == InitCalls /\ [][NextCalls]_vars

NextScrape ==
    \/ scrape_Start
    \/ scrape_Skip
    \/ scrape_Scrape
    \/ download_open
    \/ download_write
    \/ scrape_Except
    \/ scrape_Interrupt
    \/ scrape_Finish

SpecScrape == InitScrape /\ [][NextScrape]_vars

\* everylotcville run again and again, never killed; only the parcels of
\* FailingParcels can fail.
InitLot == Init /\ bot = "lot"

NextLot ==
    \/ lot_Start
    \/ lot_StartAgain
    \/ lot_StartNone
    \/ lot_status
    \/ lot_images
    \/ lot_send
    \/ lot_update
    \/ lot_commit
    \/ lot_fail

\* The job is started again after every run, and a run that can go on does.
FairSpecLot == InitLot /\ [][NextLot]_vars /\ WF_vars(NextLot)

\* A call that has started runs on: the function is not interrupted.
FairSpecCompress == SpecCompress /\ WF_vars(NextCompress)

====
